---- MODULE Spec2Model ----
(***************************************************************************)
(* A model of the Ismaili Insight newsletter tool (src/src/document.py):   *)
(* Document.review, Document.repair and Document.apply.                    *)
(*                                                                         *)
(* Strings of the program (attribute values, text) are modelled as         *)
(* sequences of lexical symbols.  A symbol is a run of characters that the *)
(* program's regular expressions always treat as a unit ("https://",       *)
(* "a.org", "##", "url=", "&", ...); the three characters "%", "2", "0"    *)
(* are symbols of their own so that occurrences of %20 can overlap.  The   *)
(* regular expressions of the source are re-stated over symbols.           *)
(***************************************************************************)
EXTENDS Integers, Sequences, FiniteSets, TLC

VARIABLES
    doc,        \* review: the 'a' elements of the document, in document order
    before,     \* review: doc as it was when the last review() was called
    summary,    \* review: the result of the last review()
    log,        \* review: the lookups the last review() issued, in order
    collected,  \* review: the anchor names the last review() collected
    cache,      \* the lookup collaborator: [web: url -> status, mail: address -> info]
    nrev,       \* number of review() calls made so far
    file,       \* repair: the tree the newsletter file parses to
    data,       \* repair: Document._data as the last repair() left it
    loaded,     \* repair: Document._data as the last repair() found it
    answer,     \* repair: what the last repair() returned
    nrep,       \* number of repair commands run so far
    sibs,       \* apply: the children of the container of the articles, in order
    found,      \* apply: sibs as the last apply() found them
    detached,   \* apply: the elements apply() has extracted from the document
    masthead,   \* apply: the front image and its caption
    specification, \* apply: the specification as it was passed to apply()
    remainder,  \* apply: what is left of the specification
    rendered,   \* apply: the parts of the groups rendered so far, in order
    descriptor, \* compile: the content descriptor given to _set_content
    fragment,   \* compile: how the last _set_content ended and the children it made
    ncomp,      \* number of _set_content calls made so far
    code,       \* text: the markup in the file
    soup,       \* text: Document._data, parsed from code
    written,    \* text: the markup as it was when the Document was made of it
    nsave,      \* number of times the Document was written back
    webpage_rows, \* cache: the rows of the table webpages, by url
    email_rows, \* cache: the rows of the table emails, by address
    today,      \* cache: datetime.datetime.today(), in days
    args,       \* cache: the arguments of the last call or command
    requested,  \* cache: what the last call or command asked of requests.get and what
                \* each request met, in order
    called,     \* cache: the Cache methods the last command called, in order
    outcome,    \* cache: how the last call or command ended, and what it gave
    op          \* the last operation performed and how it ended

reviewVars == <<doc, before, summary, log, collected, cache, nrev>>
repairVars == <<file, data, loaded, answer, nrep>>
applyVars == <<sibs, found, detached, masthead, specification, remainder, rendered>>
compileVars == <<descriptor, fragment, ncomp>>
textVars == <<code, soup, written, nsave>>
cacheVars == <<webpage_rows, email_rows, today, args, requested, called, outcome>>
laterVars == <<compileVars, textVars, cacheVars>>
vars == <<reviewVars, repairVars, applyVars, laterVars, op>>

(***************************************************************************)
(* Bounds of the model.                                                    *)
(***************************************************************************)
MaxLinks == 2
MaxReviews == 2
MaxChildren == 3
MaxRepairs == 2
MaxArticles == 2
MaxKeys == 2
MaxCompiles == 2
MaxNodes == 2
MaxSaves == 2
MaxDay == 18

(***************************************************************************)
(* Symbol-level string helpers.                                            *)
(***************************************************************************)
\* str.lower() on one symbol: only the symbols that carry upper-case letters change.
lower_sym(s) ==
    CASE s = "TrackClick" -> "trackclick"
      [] s = "_BLANK"     -> "_blank"
      [] s = "_Blank"     -> "_blank"
      [] s = "HTTPS://"   -> "https://"
      [] s = "MAILTO:"    -> "mailto:"
      [] s = "X"          -> "x"
      [] s = "FONT-SIZE: 16px;"       -> "font-size: 16px;"
      [] s = "font-family: Segoe UI;" -> "font-family: segoe ui;"
      [] OTHER            -> s

\* str.lower() on a string
lower(str) == [i \in DOMAIN str |-> lower_sym(str[i])]

\* the index of the last occurrence of symbol s in str at a position in lo..hi, 0 if none
last_index(str, s, lo, hi) ==
    LET hits == {i \in lo..hi : i \in DOMAIN str /\ str[i] = s}
    IN  IF hits = {} THEN 0 ELSE CHOOSE i \in hits : \A j \in hits : j <= i

\* the index of the first occurrence of symbol s in str at a position >= lo, 0 if none
first_index(str, s, lo) ==
    LET hits == {i \in lo..Len(str) : str[i] = s}
    IN  IF hits = {} THEN 0 ELSE CHOOSE i \in hits : \A j \in hits : i <= j

\* str[n:] for a count n of symbols
drop(str, n) == SubSeq(str, n + 1, Len(str))

\* re.search(r'^\s*$', text) is not None, for one text node
is_space(node) == node \in {"", " ", "\n"}

\* tag.text: the text nodes of the element; blank when every node is white space
is_blank(tag) == \A i \in DOMAIN tag.contents : is_space(tag.contents[i])

has_attr(tag, a) == a \in DOMAIN tag.attrs

(***************************************************************************)
(* The lookup collaborator (src/src/cache.py), as review() sees it: a      *)
(* cache is a record [web, mail] of what the two lookups answer.           *)
(***************************************************************************)
\* cache.get_webpage(url): an info holder with the status of url; a key the cache
\* record does not list is a page that is there
get_webpage(c, url) == [url |-> url, status |-> IF url \in DOMAIN c.web THEN c.web[url] ELSE 200]

\* what the world answers for an address the cache record does not list: a valid one
mail_info(c, address) ==
    IF address \in DOMAIN c.mail THEN c.mail[address]
    ELSE [is_valid |-> TRUE, reason |-> "accepted_email"]

\* cache.get_email(address): an info holder with is_valid and reason
get_email(c, address) ==
    [address |-> address, is_valid |-> mail_info(c, address).is_valid,
     reason |-> mail_info(c, address).reason]

(***************************************************************************)
(* review(): external links.                                               *)
(***************************************************************************)
\* (?:##TrackClick##)? with re.I: the rest of the string after the optional token
strip_trackclick(href) ==
    IF Len(href) >= 3 /\ href[1] = "##" /\ lower_sym(href[2]) = "trackclick" /\ href[3] = "##"
    THEN drop(href, 3) ELSE href

\* https?://(?:[a-z0-9]+\.)?[a-z0-9]+\.[a-z0-9]+ matched at the start of the string, re.I
is_http_url(str) ==
    /\ Len(str) >= 2
    /\ lower_sym(str[1]) \in {"http://", "https://"}
    /\ lower_sym(str[2]) \in {"a.org", "b.org", "www.ismailiinsight.org"}

\* ^##.+##$
is_wrapped(href) == Len(href) >= 3 /\ href[1] = "##" /\ href[Len(href)] = "##"

\* the href pattern of review()'s first find_all
external_re(href) ==
    \/ is_http_url(strip_trackclick(href))
    \/ is_wrapped(href)
    \/ href = <<>>

\* find_all('a', href=pattern): the tag has an href and the pattern is found in it
is_external(tag) == has_attr(tag, "href") /\ external_re(tag.attrs.href)

\* requests.compat.unquote_plus on one symbol
unquote_sym(s) ==
    CASE s = "https%3A%2F%2F"                -> "https://"
      [] s = "http%3A%2F%2F"                 -> "http://"
      [] s = "%2Fenewsletterpro%2Ft.aspx%3F" -> "/enewsletterpro/t.aspx?"
      [] s = "url%3D"                        -> "url="
      [] s = "https%253A%252F%252F"          -> "https%3A%2F%2F"
      [] s = "%23%23"                        -> "##"
      [] s = "%26"                           -> "&"
      [] s = "+"                             -> " "
      [] OTHER                               -> s

\* variant: no decoding
unquote_plus_raw(str) == str

unquote_plus(str) == [i \in DOMAIN str |-> unquote_sym(str[i])]

\* re.match of the double-tracking pattern, re.I: the index of the 'url=' the greedy
\* '.*' settles on (the last one that has something after it), 0 when there is no match
tracker_match(href) ==
    IF /\ Len(href) >= 5
       /\ lower_sym(href[1]) = "http://"
       /\ lower_sym(href[2]) = "www.ismailiinsight.org"
       /\ lower_sym(href[3]) \in {"/enewsletterpro/t.aspx?", "/enewsletterpro/v.aspx?"}
    THEN last_index(lower(href), "url=", 4, Len(href) - 1)
    ELSE 0

\* match.group(1): '(.+?)(?:&|$)' takes at least one symbol, then runs to the next '&' or the end
tracker_group(href) ==
    LET j == tracker_match(href)
        k == first_index(href, "&", j + 2)
    IN  SubSeq(href, j + 1, IF k = 0 THEN Len(href) ELSE k - 1)

\* re.sub(r'^##.+##', '', href): the greedy '.+' runs to the last '##'
strip_placeholder(href) ==
    drop(href, IF Len(href) >= 1 /\ href[1] = "##" THEN last_index(href, "##", 3, Len(href)) ELSE 0)

ExtZero == [removed |-> 0, retargetted |-> 0, decoded |-> 0, broken |-> 0, unchecked |-> 0]

\* '*BROKEN {:d}*'.format(info.status)
broken_marker(status) == "*BROKEN " \o ToString(status) \o "*"

\* the target test of line 99
\* variant: only a link without a target is retargetted
needs_retarget_absent_only(link) == ~has_attr(link, "target")

needs_retarget(link) ==
    ~has_attr(link, "target") \/ lower(link.attrs.target) # <<"_blank">>

\* variant: the broken range closed at 600
mark_external_closed_range(link, result, status) ==
    IF status = 403
    THEN [link |-> [link EXCEPT !.contents = <<"*UNCHECKED*">> \o @],
          result |-> [result EXCEPT !.unchecked = 1]]
    ELSE IF 400 <= status /\ status <= 600
    THEN [link |-> [link EXCEPT !.contents = <<broken_marker(status)>> \o @],
          result |-> [result EXCEPT !.broken = 1]]
    ELSE [link |-> link, result |-> result]

\* the marking of lines 113-118, given the status looked up
mark_external(link, result, status) ==
    IF status = 403
    THEN [link |-> [link EXCEPT !.contents = <<"*UNCHECKED*">> \o @],
          result |-> [result EXCEPT !.unchecked = 1]]
    ELSE IF 400 <= status /\ status < 600
    THEN [link |-> [link EXCEPT !.contents = <<broken_marker(status)>> \o @],
          result |-> [result EXCEPT !.broken = 1]]
    ELSE [link |-> link, result |-> result]

\* variant: an empty href is not useless
is_useless_nonempty(link) ==
    link.attrs.href = <<"##", "TrackClick", "##">> \/ is_blank(link)

\* the test of line 94: the link is useless
is_useless(link) ==
    link.attrs.href \in {<<"##", "TrackClick", "##">>, <<>>} \/ is_blank(link)

\* lines 99-101: the link with its target set, and the count of it
retarget_link(link) ==
    IF needs_retarget(link)
    THEN [link |-> [link EXCEPT !.attrs = [a \in DOMAIN link.attrs \cup {"target"} |->
                                             IF a = "target" THEN <<"_blank">> ELSE link.attrs[a]]],
          result |-> [ExtZero EXCEPT !.retargetted = 1]]
    ELSE [link |-> link, result |-> ExtZero]

\* lines 103-107: the href replaced by the decoded inner url when the wrapper matches
decode_link(s) ==
    IF tracker_match(s.link.attrs.href) # 0
    THEN [link |-> [s.link EXCEPT !.attrs.href = unquote_plus(tracker_group(@))],
          result |-> [s.result EXCEPT !.decoded = 1]]
    ELSE s

\* lines 110-118: the lookup of url and the marking by its status
lookup_link(s, url, c) ==
    [marked |-> mark_external(s.link, s.result, get_webpage(c, url).status),
     lookups |-> <<[kind |-> "webpage", key |-> url, id |-> s.link.id]>>]

\* variant: a placeholder href is looked up as well
check_link_wrapped_too(s, c) == lookup_link(s, strip_placeholder(s.link.attrs.href), c)

\* lines 109-120: a placeholder href is not looked up
check_link(s, c) ==
    IF ~is_wrapped(s.link.attrs.href)
    THEN lookup_link(s, strip_placeholder(s.link.attrs.href), c)
    ELSE [marked |-> s, lookups |-> <<>>]

\* what _fix_external_link leaves in the tree and returns
link_outcome(o) == [tags |-> <<o.marked.link>>, result |-> o.marked.result, lookups |-> o.lookups]

\* Document._fix_external_link: what is left of the link (none when decomposed), the
\* result it returns and the lookups it issued
fix_external_link(link, c) ==
    IF is_useless(link)
    THEN [tags |-> <<>>, result |-> [ExtZero EXCEPT !.removed = 1], lookups |-> <<>>]
    ELSE link_outcome(check_link(decode_link(retarget_link(link)), c))

\* Counter addition of two results with the same keys
add_result(a, b) == [k \in DOMAIN a |-> a[k] + b[k]]

\* variant: the lookups of the rest come first
then_rest_first(this, rest) ==
    [tags |-> this.tags \o rest.tags,
     result |-> add_result(this.result, rest.result),
     lookups |-> rest.lookups \o this.lookups]

\* one turn of a loop 'result += fix(tag)': what this tag leaves, then what the rest leave
then(this, rest) ==
    [tags |-> this.tags \o rest.tags,
     result |-> add_result(this.result, rest.result),
     lookups |-> this.lookups \o rest.lookups]

\* the loop of lines 195-196 over the tags of the document, in document order
RECURSIVE external_pass(_, _)
external_pass(tags, c) ==
    IF tags = <<>> THEN [tags |-> <<>>, result |-> ExtZero, lookups |-> <<>>]
    ELSE then(IF is_external(Head(tags)) THEN fix_external_link(Head(tags), c)
              ELSE [tags |-> <<Head(tags)>>, result |-> ExtZero, lookups |-> <<>>],
              external_pass(Tail(tags), c))

(***************************************************************************)
(* review(): internal links.                                               *)
(***************************************************************************)
\* Document._is_anchor, for the 'a' tags the model holds
is_anchor(tag) == has_attr(tag, "name")

\* ^#(?!#)
internal_re(href) ==
    Len(href) >= 1 /\ href[1] = "#" /\ (Len(href) >= 2 => href[2] \notin {"#", "##"})

is_internal(tag) == has_attr(tag, "href") /\ internal_re(tag.attrs.href)

\* [a['name'] for a in find_all(_is_anchor)]
RECURSIVE anchor_names(_)
anchor_names(tags) ==
    IF tags = <<>> THEN <<>>
    ELSE (IF is_anchor(Head(tags)) THEN <<Head(tags).attrs.name>> ELSE <<>>)
         \o anchor_names(Tail(tags))

\* the characters of a string of symbols, as one text
RECURSIVE join(_)
join(str) == IF str = <<>> THEN "" ELSE Head(str) \o join(Tail(str))

\* '*MISSING {:s}*'.format(name)
missing_marker(name) == "*MISSING " \o join(name) \o "*"

IntZero == [removed |-> 0, marked |-> 0]

\* name not in anchors
not_in(name, anchors) == \A i \in DOMAIN anchors : anchors[i] # name

\* link['href'][1:]: the name without the leading '#'
\* variant: the leading # is kept
internal_name_with_hash(href) == href

internal_name(href) == drop(href, 1)

\* variant: a link that already begins with the marker is not marked again
mark_internal_once(link, name, anchors) ==
    IF not_in(name, anchors) /\ (link.contents = <<>> \/ Head(link.contents) # missing_marker(name))
    THEN [tags |-> <<[link EXCEPT !.contents = <<missing_marker(name)>> \o @]>>,
          result |-> [IntZero EXCEPT !.marked = 1], lookups |-> <<>>]
    ELSE [tags |-> <<link>>, result |-> IntZero, lookups |-> <<>>]

\* Document._fix_internal_link
mark_internal(link, name, anchors) ==
    IF not_in(name, anchors)
    THEN [tags |-> <<[link EXCEPT !.contents = <<missing_marker(name)>> \o @]>>,
          result |-> [IntZero EXCEPT !.marked = 1], lookups |-> <<>>]
    ELSE [tags |-> <<link>>, result |-> IntZero, lookups |-> <<>>]

fix_internal_link(link, anchors) ==
    IF is_blank(link)
    THEN [tags |-> <<>>, result |-> [IntZero EXCEPT !.removed = 1], lookups |-> <<>>]
    ELSE mark_internal(link, internal_name(link.attrs.href), anchors)

\* the loop of lines 203-204
RECURSIVE internal_pass(_, _)
internal_pass(tags, anchors) ==
    IF tags = <<>> THEN [tags |-> <<>>, result |-> IntZero, lookups |-> <<>>]
    ELSE then(IF is_internal(Head(tags)) THEN fix_internal_link(Head(tags), anchors)
              ELSE [tags |-> <<Head(tags)>>, result |-> IntZero, lookups |-> <<>>],
              internal_pass(Tail(tags), anchors))

(***************************************************************************)
(* review(): mailto links.                                                 *)
(***************************************************************************)
\* ^mailto: with re.I
is_email(tag) ==
    has_attr(tag, "href") /\ Len(tag.attrs.href) >= 1 /\ lower_sym(tag.attrs.href[1]) = "mailto:"

\* re.search(r'%20', str) is not None
has_pct20(str) == \E i \in 1..(Len(str) - 2) : SubSeq(str, i, i + 2) = <<"%", "2", "0">>

\* re.sub(r'%20', '', str): one pass from the left over non-overlapping occurrences
\* variant: count=1, only the first occurrence goes
sub_pct20_first(str) ==
    LET at == {p \in 1..(Len(str) - 2) : SubSeq(str, p, p + 2) = <<"%", "2", "0">>}
    IN  IF at = {} THEN str
        ELSE LET p == CHOOSE q \in at : \A r \in at : q <= r
             IN  SubSeq(str, 1, p - 1) \o SubSeq(str, p + 3, Len(str))

RECURSIVE sub_pct20(_)
sub_pct20(str) ==
    IF Len(str) < 3 THEN str
    ELSE IF SubSeq(str, 1, 3) = <<"%", "2", "0">> THEN sub_pct20(drop(str, 3))
    ELSE <<Head(str)>> \o sub_pct20(Tail(str))

\* '*INVALID {:s}*'.format(info.reason)
invalid_marker(reason) == "*INVALID " \o reason \o "*"

MailZero == [invalid |-> 0, cleaned |-> 0, unchecked |-> 0, removed |-> 0]

\* variant: accepted_email is not told apart
mark_email_any_reason(email, result, info) ==
    IF ~info.is_valid
    THEN [tags |-> <<[email EXCEPT !.contents = <<invalid_marker(info.reason)>> \o @]>>,
          result |-> [result EXCEPT !.invalid = 1]]
    ELSE [tags |-> <<email>>, result |-> result]

\* the marking of lines 169-175, given the info looked up
mark_email(email, result, info) ==
    IF ~info.is_valid
    THEN IF info.reason = "accepted_email"
         THEN [tags |-> <<[email EXCEPT !.contents = <<"*UNCHECKED*">> \o @]>>,
               result |-> [result EXCEPT !.unchecked = 1]]
         ELSE [tags |-> <<[email EXCEPT !.contents = <<invalid_marker(info.reason)>> \o @]>>,
               result |-> [result EXCEPT !.invalid = 1]]
    ELSE [tags |-> <<email>>, result |-> result]

\* Document._fix_email
\* lines 162-164: the href without its '%20', and the count of it
clean_email(email) ==
    IF has_pct20(email.attrs.href)
    THEN [email |-> [email EXCEPT !.attrs.href = sub_pct20(@)],
          result |-> [MailZero EXCEPT !.cleaned = 1]]
    ELSE [email |-> email, result |-> MailZero]

\* lines 166-175: the lookup of the address and the marking by what it answers; the
\* address is href[7:], 'mailto:' being seven characters, one symbol here
lookup_email(s, c) ==
    [marked |-> mark_email(s.email, s.result, get_email(c, drop(s.email.attrs.href, 1))),
     lookups |-> <<[kind |-> "email", key |-> drop(s.email.attrs.href, 1), id |-> s.email.id]>>]

\* what _fix_email leaves in the tree and returns
email_outcome(o) == [tags |-> o.marked.tags, result |-> o.marked.result, lookups |-> o.lookups]

\* Document._fix_email
fix_email(email, c) ==
    IF is_blank(email)
    THEN [tags |-> <<>>, result |-> [MailZero EXCEPT !.removed = 1], lookups |-> <<>>]
    ELSE email_outcome(lookup_email(clean_email(email), c))

\* the loop of lines 210-211
RECURSIVE email_pass(_, _)
email_pass(tags, c) ==
    IF tags = <<>> THEN [tags |-> <<>>, result |-> MailZero, lookups |-> <<>>]
    ELSE then(IF is_email(Head(tags)) THEN fix_email(Head(tags), c)
              ELSE [tags |-> <<Head(tags)>>, result |-> MailZero, lookups |-> <<>>],
              email_pass(Tail(tags), c))

\* lines 212-213: the summary returned, with what the run looked up and collected
review_summary(ext, anchors, int, eml) ==
    [tags |-> eml.tags,
     result |-> [links |-> ext.result, anchors |-> int.result, emails |-> eml.result],
     lookups |-> ext.lookups \o eml.lookups,
     anchors |-> anchors]

\* lines 206-211: the emails of the tree the internal links left
review_emails(ext, anchors, int, c) == review_summary(ext, anchors, int, email_pass(int.tags, c))

\* lines 198-204: the anchors of the tree the external links left, and the internal
\* links against them
review_internal(ext, c) ==
    review_emails(ext, anchor_names(ext.tags),
                  internal_pass(ext.tags, anchor_names(ext.tags)), c)

\* Document.review: the three passes in the order of the source; the anchors are
\* collected between the first and the second
review(tags, c) == review_internal(external_pass(tags, c), c)

(***************************************************************************)
(* Documents for review(): 'a' elements drawn from a pool of shapes.       *)
(***************************************************************************)
URL_A == <<"https://", "a.org">>
URL_B == <<"https://", "b.org">>
PLACEHOLDER == <<"##", "TrackClick", "##">>
TEMPLATE_VAR == <<"##", "X", "##">>
WRAPPER == <<"http://", "www.ismailiinsight.org", "/enewsletterpro/t.aspx?">>
DOUBLE_B == WRAPPER \o <<"url=", "https%3A%2F%2F", "b.org">>
DOUBLE_B_MORE == WRAPPER \o <<"id=1", "&", "url=", "https%3A%2F%2F", "b.org", "&", "x=1">>
TRIPLE_B == WRAPPER \o <<"url=", "http%3A%2F%2F", "www.ismailiinsight.org",
                         "%2Fenewsletterpro%2Ft.aspx%3F", "url%3D", "https%253A%252F%252F", "b.org">>
ADDRESS == <<"a", "@b.com">>
DIRTY == <<"%", "2", "0", "a", "%", "2", "0", "@b.com">>
OVERLAP == <<"%", "2", "%", "2", "0", "0", "a", "@b.com">>

Tag(attrs, contents) == [attrs |-> attrs, contents |-> contents]

ExternalPool ==
    {Tag([href |-> h], <<"X">>) :
        h \in {<<>>, PLACEHOLDER, TEMPLATE_VAR, URL_A, PLACEHOLDER \o URL_A,
               TEMPLATE_VAR \o URL_A, DOUBLE_B_MORE, TRIPLE_B}}
    \cup {Tag([href |-> URL_A, target |-> <<t>>], <<"X">>) : t \in {"_blank", "_BLANK", "_self"}}
    \cup {Tag([href |-> URL_A], <<" ">>), Tag([href |-> URL_B, target |-> <<"_blank">>], <<>>)}

InternalPool ==
    {Tag([name |-> <<"n1">>], <<"X">>), Tag([name |-> <<"n2">>], <<>>),
     Tag([name |-> <<"n1">>, href |-> URL_A], <<" ">>),
     Tag([name |-> <<"n2">>, href |-> <<"#", "n1">>], <<>>),
     Tag([href |-> <<"#", "n1">>], <<"X">>), Tag([href |-> <<"#", "n2">>], <<"X">>),
     Tag([href |-> <<"#", "n1">>], <<" ">>)}

EmailPool ==
    {Tag([href |-> <<"mailto:">> \o a], <<"X">>) : a \in {ADDRESS, DIRTY, OVERLAP}}
    \cup {Tag([href |-> <<"mailto:">> \o ADDRESS], <<" ">>),
          Tag([href |-> <<"MAILTO:">> \o ADDRESS], <<"X">>)}

MixedPool ==
    {Tag([href |-> URL_A, target |-> <<"_self">>], <<"X">>), Tag([href |-> DOUBLE_B], <<"X">>),
     Tag([name |-> <<"n1">>], <<"X">>), Tag([href |-> <<"#", "n2">>], <<"X">>),
     Tag([href |-> <<"mailto:">> \o DIRTY], <<"X">>),
     Tag([href |-> <<"mailto:">> \o ADDRESS], <<" ">>)}

\* the documents: up to MaxLinks elements, each with its position as identity; a
\* document holds links of one kind, or a mix of a few
Docs ==
    UNION {{[i \in 1..n |-> [id |-> i, attrs |-> f[i].attrs, contents |-> f[i].contents]] :
              f \in [1..n -> pool]} :
           <<n, pool>> \in (1..MaxLinks) \X {ExternalPool, InternalPool, EmailPool, MixedPool}}

Statuses == {200, 403, 410, 600}
Infos == {[is_valid |-> TRUE, reason |-> "accepted_email"],
          [is_valid |-> FALSE, reason |-> "accepted_email"],
          [is_valid |-> FALSE, reason |-> "rejected_email"]}

Urls == {URL_A, URL_B, DOUBLE_B}
Addresses == {ADDRESS, <<"%", "2", "0", "a", "@b.com">>}

\* a cache that answers 200 and valid everywhere
QuietCache == [web |-> [u \in Urls |-> 200],
               mail |-> [a \in Addresses |-> [is_valid |-> TRUE, reason |-> "accepted_email"]]]

\* the keys that n successive reviews of the tags look up
RECURSIVE keys_of(_, _)
keys_of(tags, n) ==
    IF n = 0 THEN {}
    ELSE UNION {{r.lookups[i].key : i \in DOMAIN r.lookups} \cup keys_of(r.tags, n - 1) :
                  r \in {review(tags, QuietCache)}}

\* the caches that differ from the quiet one only on keys the document looks up
Caches(tags) ==
    UNION {{[web |-> [u \in Urls |-> IF u \in keys THEN w[u] ELSE 200],
             mail |-> [a \in Addresses |-> IF a \in keys THEN m[a] ELSE QuietCache.mail[a]]] :
               w \in [Urls \cap keys -> Statuses], m \in [Addresses \cap keys -> Infos]} :
           keys \in {keys_of(tags, MaxReviews)}}

NoSummary == [links |-> ExtZero, anchors |-> IntZero, emails |-> MailZero]

(***************************************************************************)
(* Document.repair() (src/src/document.py, 216-245) and the repair command *)
(* around it (src/src/main.py).  A tree is [head, body], each a sequence   *)
(* of nodes; a node is a text node [text] or an element [name, attrs,      *)
(* kids]; strings are sequences of symbols as above.                       *)
(***************************************************************************)
Text(str) == [text |-> str]
Elem(name, attrs, kids) == [name |-> name, attrs |-> attrs, kids |-> kids]
is_tag(node) == "name" \in DOMAIN node
NoAttrs == [a \in {} |-> <<>>]

GRAY == <<"background-color: #595959;">>

\* re.subn(r'ismailinsight\.org', 'ismailiinsight.org', code, flags=re.I): the symbols
\* the pattern matches, in any case, and what each becomes
is_typo(s) == s \in {"ismailinsight.org", "ISMAILINSIGHT.ORG", "IsmailInsight.Org"}
sub_typo(str) == [i \in DOMAIN str |-> IF is_typo(str[i]) THEN "ismailiinsight.org" ELSE str[i]]
count_typo(str) == Cardinality({i \in DOMAIN str : is_typo(str[i])})

RECURSIVE sum_over(_, _)
sum_over(f, keys) ==
    IF keys = {} THEN 0
    ELSE LET k == CHOOSE x \in keys : TRUE IN f[k] + sum_over(f, keys \ {k})

\* what subn counts and rewrites in the serialised nodes: their character data and
\* their attribute values
RECURSIVE typos_in(_)
typos_in(nodes) ==
    IF nodes = <<>> THEN 0
    ELSE LET node == Head(nodes)
         IN  (IF is_tag(node)
              THEN sum_over([a \in DOMAIN node.attrs |-> count_typo(node.attrs[a])],
                            DOMAIN node.attrs)
                   + typos_in(node.kids)
              ELSE count_typo(node.text))
             + typos_in(Tail(nodes))

RECURSIVE fix_typos(_)
fix_typos(nodes) ==
    IF nodes = <<>> THEN <<>>
    ELSE LET node == Head(nodes)
         IN  <<IF is_tag(node)
               THEN Elem(node.name, [a \in DOMAIN node.attrs |-> sub_typo(node.attrs[a])],
                         fix_typos(node.kids))
               ELSE Text(sub_typo(node.text))>>
             \o fix_typos(Tail(nodes))

\* bs4.BeautifulSoup(str(nodes), 'html5lib'): the serialisation runs adjacent text nodes
\* together and the parser makes one text node of each run, none of an empty one
RECURSIVE parse(_)
parse(nodes) ==
    IF nodes = <<>> THEN <<>>
    ELSE LET node == Head(nodes)
             rest == parse(Tail(nodes))
         IN  IF is_tag(node) THEN <<Elem(node.name, node.attrs, parse(node.kids))>> \o rest
             ELSE IF node.text = <<>> THEN rest
             ELSE IF rest # <<>> /\ ~is_tag(Head(rest))
                  THEN <<Text(node.text \o Head(rest).text)>> \o Tail(rest)
                  ELSE <<node>> \o rest

parse_tree(tree) == [head |-> parse(tree.head), body |-> parse(tree.body)]

\* find_all('style'), and the nodes once each of them is decomposed
RECURSIVE count_style(_)
count_style(nodes) ==
    IF nodes = <<>> THEN 0
    ELSE LET node == Head(nodes)
         IN  (IF ~is_tag(node) THEN 0
              ELSE IF node.name = "style" THEN 1
              ELSE count_style(node.kids))
             + count_style(Tail(nodes))

RECURSIVE decompose_style(_)
decompose_style(nodes) ==
    IF nodes = <<>> THEN <<>>
    ELSE LET node == Head(nodes)
         IN  (IF ~is_tag(node) THEN <<node>>
              ELSE IF node.name = "style" THEN <<>>
              ELSE <<Elem(node.name, node.attrs, decompose_style(node.kids))>>)
             \o decompose_style(Tail(nodes))

\* variant: only the first child of body is looked at
find_div_first_child(body) ==
    IF body # <<>> /\ is_tag(body[1]) /\ body[1].name = "div" THEN 1 ELSE 0

\* body.find('div', recursive=False): the index of the first div among the children of
\* body, 0 for None
find_div(body) ==
    LET divs == {i \in DOMAIN body : is_tag(body[i]) /\ body[i].name = "div"}
    IN  IF divs = {} THEN 0 ELSE CHOOSE i \in divs : \A j \in divs : i <= j

NoAnswer == [typos |-> 0 - 1, styles |-> 0 - 1, background |-> 0 - 1]

\* lines 240-243: a new gray div takes the children of body, in order, and is appended
wrap(body) == <<Elem("div", [style |-> GRAY], body)>>

\* Document.repair(): how it ends, the tree it leaves and the result it returns
repair(tree) ==
    LET typos == typos_in(tree.head) + typos_in(tree.body)
        fresh == parse_tree([head |-> fix_typos(tree.head), body |-> fix_typos(tree.body)])
        styles == count_style(fresh.head) + count_style(fresh.body)
        bare == [head |-> decompose_style(fresh.head), body |-> decompose_style(fresh.body)]
        at == find_div(bare.body)
    IN  IF at # 0 /\ ~has_attr(bare.body[at], "style")
        THEN [ended |-> "KeyError", data |-> bare, result |-> NoAnswer]
        ELSE IF at = 0 \/ bare.body[at].attrs.style # GRAY
        THEN [ended |-> "returned",
              data |-> [bare EXCEPT !.body = wrap(bare.body)],
              result |-> [typos |-> typos, styles |-> styles, background |-> 1]]
        ELSE [ended |-> "returned", data |-> bare,
              result |-> [typos |-> typos, styles |-> styles, background |-> 0]]

(***************************************************************************)
(* The newsletters repair() is run on.                                     *)
(***************************************************************************)
LINK_TYPO == Elem("a", [href |-> <<"https://", "www.", "IsmailInsight.Org">>], <<Text(<<"X">>)>>)
LINK_FINE == Elem("a", [href |-> <<"https://", "www.", "ismailiinsight.org">>], <<Text(<<"X">>)>>)
STYLE == Elem("style", NoAttrs, <<Text(<<"css">>)>>)

BodyPool ==
    { Text(<<"\n">>),
      Text(<<"see ", "ismailinsight.org">>),
      Elem("span", NoAttrs, <<Text(<<"MOVE ME">>)>>),
      Elem("div", [style |-> GRAY], <<LINK_FINE>>),
      Elem("div", [style |-> GRAY], <<Text(<<"\n">>), STYLE, Text(<<"Y">>), LINK_TYPO>>),
      Elem("div", [style |-> <<"background-color:#595959;">>], <<LINK_FINE>>),
      Elem("div", NoAttrs, <<Text(<<"Y">>)>>),
      STYLE }

Heads == {<<>>, <<STYLE>>, <<Elem("title", NoAttrs, <<Text(<<"ISMAILINSIGHT.ORG">>)>>)>>}

Bodies == UNION {[1..n -> BodyPool] : n \in 0..MaxChildren}

\* the trees a newsletter file parses to
Trees == {tree \in [head : Heads, body : Bodies] : parse_tree(tree) = tree}

NoTree == [head |-> <<>>, body |-> <<>>]

(***************************************************************************)
(* Document.apply() (src/src/document.py, 380-521).  The articles of a     *)
(* newsletter are siblings in one container: sibs is the sequence of its   *)
(* children, each an entry [id, node] whose id tells one element from an   *)
(* equal one.  A style is a sequence of declarations.  A transform         *)
(* specification maps keys to groups, a group maps 'title', 'body', 'left' *)
(* and 'right' to content; a content list is a sequence of descriptors; a  *)
(* descriptor is a literal [str] or a mapping.  The mappings of this model *)
(* are hyperlinks and mappings that carry no capability key.               *)
(***************************************************************************)
\* tag.text: the character data below the nodes, in document order
RECURSIVE text_of(_)
text_of(nodes) ==
    IF nodes = <<>> THEN <<>>
    ELSE (IF is_tag(Head(nodes)) THEN text_of(Head(nodes).kids) ELSE Head(nodes).text)
         \o text_of(Tail(nodes))

node_text(node) == text_of(<<node>>)

\* re.search(r'^\s*$', text) is not None
blank_text(str) == \A i \in DOMAIN str : is_space(str[i])

\* str.strip()
strip(str) ==
    LET keep == {i \in DOMAIN str : ~is_space(str[i])}
    IN  IF keep = {} THEN <<>>
        ELSE SubSeq(str, CHOOSE i \in keep : \A j \in keep : i <= j,
                         CHOOSE i \in keep : \A j \in keep : j <= i)

\* tag.find('img') is not None
RECURSIVE has_img(_)
has_img(nodes) ==
    /\ nodes # <<>>
    /\ \/ is_tag(Head(nodes)) /\ (Head(nodes).name = "img" \/ has_img(Head(nodes).kids))
       \/ has_img(Tail(nodes))

\* the declarations (in lower case) that hold each text _is_article_title looks for
WithBackgroundColor == {"background-color: #595959;"}
WithFontFamily == {"font-family: segoe ui;"}
WithFontSize16 == {"font-size: 16px;", "font-size: 16px"}
WithColor == {"color: #595959;", "color: #595959", "background-color: #595959;",
              "color: rgb(89, 89, 89);"}
WithoutSemicolon == {"font-size: 16px", "color: #595959"}

in_style(style, decls) == \E i \in DOMAIN style : style[i] \in decls

\* tag['style'].count(';')
semicolons(style) == Cardinality({i \in DOMAIN style : style[i] \notin WithoutSemicolon})

\* Document._is_article_title, on the style it has put in lower case
is_article_title(node) ==
    /\ is_tag(node)
    /\ has_attr(node, "style")
    /\ node.name = "span"
    /\ ~blank_text(node_text(node))
    /\ in_style(node.attrs.style, WithFontSize16)
    /\ in_style(node.attrs.style, WithColor)
    /\ semicolons(node.attrs.style) >=
          1 + (IF in_style(node.attrs.style, WithBackgroundColor) THEN 1 ELSE 0)
            + (IF in_style(node.attrs.style, WithFontFamily) THEN 1 ELSE 0)

\* line 47, met by find_all on every element that has a style: the style is put in
\* lower case
RECURSIVE lower_styles(_)
lower_styles(nodes) ==
    IF nodes = <<>> THEN <<>>
    ELSE LET node == Head(nodes)
         IN  <<IF ~is_tag(node) THEN node
               ELSE Elem(node.name,
                         [a \in DOMAIN node.attrs |->
                             IF a = "style" THEN lower(node.attrs[a]) ELSE node.attrs[a]],
                         lower_styles(node.kids))>>
             \o lower_styles(Tail(nodes))

lower_entry(entry) == [id |-> entry.id, node |-> Head(lower_styles(<<entry.node>>))]

\* lines 488-491: the element apply() works on for a title found by find_all: the
\* span, or the 'a' around it
is_art(entry) ==
    \/ is_article_title(entry.node)
    \/ /\ is_tag(entry.node) /\ entry.node.name = "a"
       /\ \E k \in DOMAIN entry.node.kids : is_article_title(entry.node.kids[k])

\* the ids of the articles, in document order
articles(entries) ==
    LET arts == SelectSeq(entries, is_art)
    IN  [i \in DOMAIN arts |-> arts[i].id]

\* where the element is among the children of the container, 0 when it was extracted
pos_of(entries, id) ==
    LET at == {i \in DOMAIN entries : entries[i].id = id}
    IN  IF at = {} THEN 0 ELSE CHOOSE i \in at : TRUE

\* tag.find_next_sibling(name): the first later sibling of that name, 0 for None
next_named(entries, i, name) ==
    LET hits == {j \in (i + 1)..Len(entries) :
                    is_tag(entries[j].node) /\ entries[j].node.name = name}
    IN  IF hits = {} THEN 0 ELSE CHOOSE j \in hits : \A k \in hits : j <= k

\* tag.find_next_sibling(lambda x: isinstance(x, bs4.Tag))
next_tag(entries, i) ==
    LET hits == {j \in (i + 1)..Len(entries) : is_tag(entries[j].node)}
    IN  IF hits = {} THEN 0 ELSE CHOOSE j \in hits : \A k \in hits : j <= k

\* Document._is_before_body: "yes", "no", or the error reading None.text raises
is_before_body(entries, i) ==
    LET next_div == next_named(entries, i, "div")
        next_table == next_named(entries, i, "table")
    IN  IF entries[i].node.name # "div" \/ (next_div = 0 /\ next_table = 0) THEN "no"
        ELSE IF next_div = 0 THEN "AttributeError"
        ELSE IF \/ ~blank_text(node_text(entries[next_div].node))
                \/ next_table # 0
                \/ has_img(entries[next_div].node.kids)
             THEN "yes" ELSE "no"

\* Document._is_before_return: "yes", "no", or the error reading None.name raises
is_before_return(entries, i) ==
    LET nxt == next_tag(entries, i)
    IN  IF entries[i].node.name # "div" THEN "no"
        ELSE IF nxt = 0 THEN "AttributeError"
        ELSE IF entries[nxt].node.name # "a" \/ ~has_attr(entries[nxt].node, "href") THEN "no"
        ELSE IF entries[nxt].node.attrs.href = <<"#", "ReturnTop">> THEN "yes" ELSE "no"

\* art.find_next_sibling(test): the later sibling elements are tried in order until
\* one passes or the test raises; an extracted element (i = 0) has no sibling
find_next_sibling(entries, i, which) ==
    LET test(j) == IF which = "_is_before_body" THEN is_before_body(entries, j)
                   ELSE is_before_return(entries, j)
        tried == {j \in (i + 1)..Len(entries) : is_tag(entries[j].node) /\ test(j) # "no"}
        first == CHOOSE j \in tried : \A k \in tried : j <= k
    IN  IF i = 0 \/ tried = {} THEN [ended |-> "returned", at |-> 0]
        ELSE IF test(first) = "yes" THEN [ended |-> "returned", at |-> first]
        ELSE [ended |-> test(first), at |-> 0]

\* Document.BASE_URL
BASE_URL == "https://ismailiinsight.org/eNewsletterPro/uploadedimages/000001/"

PARAGRAPH_STYLE ==
    <<"font-family: Segoe UI;", "font-size: 13px;", "color: #595959;", "text-align: justify;">>

\* Document._ensure_quoted: quote(unquote(url)), on the paths of this model
ensure_quoted(url) ==
    CASE url = "docs/a b.pdf"   -> "docs/a%20b.pdf"
      [] url = "docs/a%20b.pdf" -> "docs/a%20b.pdf"
      [] OTHER                  -> url

\* descriptor['file'].rsplit('/')[-1]
basename(path) ==
    CASE path = "docs/a b.pdf"       -> "a b.pdf"
      [] path = "docs/a%20b.pdf"     -> "a%20b.pdf"
      [] path = "National/front.jpg" -> "front.jpg"
      [] OTHER                       -> path

\* variant: an email key is tried before link and file
add_hyperlink_email_first(item) ==
    LET url == IF "email" \in DOMAIN item THEN <<"mailto:", item.email>>
               ELSE IF "link" \in DOMAIN item THEN <<item.link>>
               ELSE <<BASE_URL, ensure_quoted(item.file)>>
        default_text == IF "email" \in DOMAIN item THEN item.email
                        ELSE IF "link" \in DOMAIN item THEN item.link
                        ELSE basename(item.file)
    IN  Elem("a", [href |-> url, target |-> <<"_blank">>],
             <<Text(<<IF "text" \in DOMAIN item THEN item.text ELSE default_text>>)>>)

\* Document._add_hyperlink: an 'a' that opens in a new window, with the text given or
\* the default one
add_hyperlink(item) ==
    LET url == IF "link" \in DOMAIN item THEN <<item.link>>
               ELSE IF "file" \in DOMAIN item THEN <<BASE_URL, ensure_quoted(item.file)>>
               ELSE <<"mailto:", item.email>>
        default_text == IF "link" \in DOMAIN item THEN item.link
                        ELSE IF "file" \in DOMAIN item THEN basename(item.file)
                        ELSE item.email
    IN  Elem("a", [href |-> url, target |-> <<"_blank">>],
             <<Text(<<IF "text" \in DOMAIN item THEN item.text ELSE default_text>>)>>)

RECURSIVE set_content(_)

\* an element made of what a nested _set_content put in it, when that returned
enclose(name, attrs, made) ==
    [ended |-> made.ended,
     nodes |-> IF made.ended = "returned" THEN <<Elem(name, attrs, made.kids)>> ELSE <<>>]

\* what fetching an image of the upload directory answers: its pixel dimensions
ImageFetch(image_url) ==
    IF image_url = "National/front.jpg" THEN [width |-> "600", height |-> "400"]
    ELSE [width |-> "120", height |-> "90"]

\* the table _add_image builds: a row with the image, then the rows of the caption
image_table(image_url, caption_rows) ==
    Elem("table",
         [align |-> <<"center">>,
          style |-> <<"font-family: 'Segoe UI';", "font-size: 13px;", "color: rgb(89, 89, 89);">>],
         <<Elem("tbody", NoAttrs,
                <<Elem("tr", NoAttrs,
                       <<Elem("td", [style |-> <<"text-align: center;", "vertical-align: middle;">>],
                              <<Elem("img", [src |-> <<BASE_URL, ensure_quoted(image_url)>>,
                                             width |-> <<ImageFetch(image_url).width>>,
                                             height |-> <<ImageFetch(image_url).height>>],
                                     <<>>)>>)>>)>>
                \o caption_rows)>>)

\* lines 311-317: the row of the caption, of what _set_content made of it
with_caption(image_url, made) ==
    [ended |-> made.ended,
     nodes |-> IF made.ended # "returned" THEN <<>>
               ELSE <<image_table(image_url,
                         <<Elem("tr", NoAttrs,
                                <<Elem("td", [style |-> <<"text-align: justify;",
                                                          "vertical-align: middle;",
                                                          "font-size: 10px;">>],
                                       made.kids)>>)>>)>>]

\* Document._add_image: the caption row is there when the descriptor has a caption
add_image(item) ==
    IF "caption" \in DOMAIN item THEN with_caption(item.image, set_content(item.caption))
    ELSE [ended |-> "returned", nodes |-> <<image_table(item.image, <<>>)>>]

\* Document._add_formatted: bold is tried, then italics, then underline
add_formatted(item) ==
    IF "bold" \in DOMAIN item THEN enclose("strong", NoAttrs, set_content(item.bold))
    ELSE IF "italics" \in DOMAIN item THEN enclose("em", NoAttrs, set_content(item.italics))
    ELSE enclose("u", NoAttrs, set_content(item.underline))

\* Document._add_navigation: anchor is tried, then jump
add_navigation(item) ==
    Elem("a",
         IF "anchor" \in DOMAIN item THEN [name |-> <<item.anchor>>]
         ELSE [href |-> <<"#", item.jump>>],
         <<Text(<<IF "text" \in DOMAIN item THEN item.text
                  ELSE IF "anchor" \in DOMAIN item THEN item.anchor ELSE item.jump>>)>>)

\* one thing made after another: the first error ends it
chain(made, rest) ==
    IF made.ended # "returned" THEN [ended |-> made.ended, kids |-> <<>>]
    ELSE [ended |-> rest.ended, kids |-> made.nodes \o rest.kids]

\* the loop of lines 374-377: an 'li' for each item
RECURSIVE list_items(_)
list_items(items) ==
    IF items = <<>> THEN [ended |-> "returned", kids |-> <<>>]
    ELSE chain(enclose("li", NoAttrs, set_content(Head(items))), list_items(Tail(items)))

\* Document._add_list: numbers is tried, then bullets
add_list(item) ==
    IF "numbers" \in DOMAIN item THEN enclose("ol", NoAttrs, list_items(item.numbers))
    ELSE enclose("ul", NoAttrs, list_items(item.bullets))

\* the body of the loop of _set_content for one item: the nodes appended, or the error
\* raised; a literal is [str] or [num], anything else a mapping; building the
\* UnknownTransform of line 405 adds sets with +, a TypeError
compile_item(item) ==
    IF "str" \in DOMAIN item
    THEN [ended |-> "returned", nodes |-> <<Text(<<item.str>>)>>]
    ELSE IF "num" \in DOMAIN item
    THEN [ended |-> "returned", nodes |-> <<Text(<<ToString(item.num)>>)>>]
    ELSE IF DOMAIN item \cap {"link", "file", "email"} # {}
    THEN [ended |-> "returned", nodes |-> <<add_hyperlink(item)>>]
    ELSE IF "image" \in DOMAIN item THEN add_image(item)
    ELSE IF DOMAIN item \cap {"bold", "italics", "underline"} # {} THEN add_formatted(item)
    ELSE IF DOMAIN item \cap {"jump", "anchor"} # {}
    THEN [ended |-> "returned", nodes |-> <<add_navigation(item)>>]
    ELSE IF DOMAIN item \cap {"numbers", "bullets"} # {} THEN add_list(item)
    ELSE [ended |-> "TypeError", nodes |-> <<>>]

\* Document._set_content: the children the parent has when it returns or raises
set_content(content_list) ==
    IF content_list = <<>> THEN [ended |-> "returned", kids |-> <<>>]
    ELSE LET made == compile_item(Head(content_list))
             rest == set_content(Tail(content_list))
         IN  IF made.ended # "returned" THEN [ended |-> made.ended, kids |-> <<>>]
             ELSE [ended |-> rest.ended, kids |-> made.nodes \o rest.kids]

\* Document._get_br_tag
br_tag == Elem("div", [style |-> PARAGRAPH_STYLE], <<Elem("br", NoAttrs, <<>>)>>)

\* Document._add_paragraphs: the paragraph blocks it has put after (or, for the first
\* of a column, in) the reference tag when it returns or raises; a paragraph takes
\* 'gap' br blocks at its end once the next paragraph is made
RECURSIVE add_paragraphs(_, _)
add_paragraphs(paragraph_list, gap) ==
    IF paragraph_list = <<>> THEN [ended |-> "returned", blocks |-> <<>>]
    ELSE LET made == set_content(Head(paragraph_list))
             rest == add_paragraphs(Tail(paragraph_list), gap)
             follows == Tail(paragraph_list) # <<>>
                        /\ set_content(Head(Tail(paragraph_list))).ended = "returned"
         IN  IF made.ended # "returned" THEN [ended |-> made.ended, blocks |-> <<>>]
             ELSE [ended |-> rest.ended,
                   blocks |-> <<Elem("div", [style |-> PARAGRAPH_STYLE],
                                     made.kids \o (IF follows THEN [k \in 1..gap |-> br_tag]
                                                   ELSE <<>>))>>
                              \o rest.blocks]

\* the table _add_left_right builds of the two columns
columns_table(left, right) ==
    Elem("table", [align |-> <<"center">>, cellpadding |-> <<"3">>, cellspacing |-> <<"0">>],
         <<Elem("tbody", NoAttrs,
                <<Elem("tr", NoAttrs,
                       <<Elem("td", [style |-> <<"vertical-align: middle;">>], left),
                         Elem("td", [style |-> <<"vertical-align: middle;">>], right)>>)>>)>>)

\* a mapping without one of its keys (del)
without(f, key) == [k \in DOMAIN f \ {key} |-> f[k]]

\* the entries new elements are put in
New(nodes) == [i \in DOMAIN nodes |-> [id |-> 0, node |-> nodes[i]]]

\* Document._clear_body: the siblings after before_body are extracted up to the first
\* that equals after_body (Tag equality: same name, attributes and content)
clear_body(entries, before_body, after_body) ==
    LET stops == {j \in (before_body + 1)..Len(entries) :
                     after_body # 0 /\ entries[j].node = entries[after_body].node}
        stop == IF stops = {} THEN Len(entries) + 1
                ELSE CHOOSE j \in stops : \A k \in stops : j <= k
    IN  [kept |-> SubSeq(entries, 1, before_body) \o SubSeq(entries, stop, Len(entries)),
         extracted |-> SubSeq(entries, before_body + 1, stop - 1)]

\* insert_after(before_body), for a run of new nodes
insert_after(entries, at, nodes) ==
    SubSeq(entries, 1, at) \o New(nodes) \o SubSeq(entries, at + 1, Len(entries))

\* a record of a part of a group that was rendered into the document
Done(key, part) == [key |-> key, part |-> part]

\* the element an article stands for: among the children, or extracted
entry_of(st, id) ==
    IF pos_of(st.sibs, id) # 0 THEN st.sibs[pos_of(st.sibs, id)]
    ELSE st.detached[pos_of(st.detached, id)]

\* variant: the text is not stripped
title_of_as_written(entry) == join(node_text(entry.node))

\* art.text.strip()
title_of(entry) == join(strip(node_text(entry.node)))

\* line 508, reached when the group has no 'left' or no 'right': the 'body' paragraphs
\* go after before_body; a group without 'body' raises KeyError
add_body(cleared, title, before_body) ==
    LET group == cleared.spec[title]
        made == add_paragraphs(group.body, 1)
    IN  IF "body" \notin DOMAIN group THEN [cleared EXCEPT !.ended = "KeyError"]
        ELSE [cleared EXCEPT
                 !.sibs = insert_after(@, before_body, made.blocks),
                 !.ended = made.ended,
                 !.done = IF made.ended = "returned" THEN @ \o <<Done(title, "body")>> ELSE @,
                 !.spec = IF made.ended = "returned"
                          THEN [@ EXCEPT ![title] = without(group, "body")] ELSE @]

\* lines 501-509: transform body
transform_body(st, title, before_body, after_body) ==
    LET group == st.spec[title]
        parts == clear_body(st.sibs, before_body, after_body)
        cleared == [st EXCEPT !.sibs = parts.kept, !.detached = @ \o parts.extracted]
        left == add_paragraphs(group.left, 2)
        right == add_paragraphs(group.right, 2)
    IN  IF DOMAIN group \cap {"body", "left", "right"} = {} THEN st
        ELSE IF before_body = 0 THEN [st EXCEPT !.ended = "AttributeError"]
        ELSE IF "left" \notin DOMAIN group THEN add_body(cleared, title, before_body)
        ELSE IF left.ended # "returned" THEN [cleared EXCEPT !.ended = left.ended]
        ELSE IF "right" \notin DOMAIN group THEN add_body(cleared, title, before_body)
        ELSE IF right.ended # "returned" THEN [cleared EXCEPT !.ended = right.ended]
        ELSE [cleared EXCEPT
                 !.sibs = insert_after(@, before_body,
                                       <<columns_table(left.blocks, right.blocks)>>),
                 !.done = @ \o <<Done(title, "left"), Done(title, "right")>>,
                 !.spec = [@ EXCEPT ![title] = without(without(group, "left"), "right")]]

\* lines 511-519: transform title, then drop the group when nothing is left of it
transform_title(st, id, title) ==
    LET group == st.spec[title]
        made == set_content(group.title)
        art == entry_of(st, id)
        set == [id |-> id, node |-> Elem(art.node.name, art.node.attrs, made.kids)]
        at == pos_of(st.sibs, id)
        titled == IF at # 0 THEN [st EXCEPT !.sibs[at] = set]
                  ELSE [st EXCEPT !.detached[pos_of(st.detached, id)] = set]
        left == IF "title" \in DOMAIN group THEN without(group, "title") ELSE group
        after == IF "title" \in DOMAIN group THEN titled ELSE st
    IN  IF "title" \in DOMAIN group /\ made.ended # "returned"
        THEN [titled EXCEPT !.ended = made.ended]
        ELSE [after EXCEPT
                 !.done = IF "title" \in DOMAIN group THEN @ \o <<Done(title, "title")>> ELSE @,
                 !.spec = IF DOMAIN left = {} THEN without(@, title)
                          ELSE [@ EXCEPT ![title] = left]]

\* the body of the loop of lines 489-519 for one article
apply_article(id, st) ==
    LET at == pos_of(st.sibs, id)
        title == title_of(entry_of(st, id))
        before_body == find_next_sibling(st.sibs, at, "_is_before_body")
        after_body == find_next_sibling(st.sibs, at, "_is_before_return")
        bodied == transform_body(st, title, before_body.at, after_body.at)
    IN  IF title \notin DOMAIN st.spec THEN st
        ELSE IF before_body.ended # "returned" THEN [st EXCEPT !.ended = before_body.ended]
        ELSE IF after_body.ended # "returned" THEN [st EXCEPT !.ended = after_body.ended]
        ELSE IF bodied.ended # "returned" THEN bodied
        ELSE transform_title(bodied, id, title)

RECURSIVE apply_articles(_, _)
apply_articles(arts, st) ==
    IF arts = <<>> \/ st.ended # "returned" THEN st
    ELSE apply_articles(Tail(arts), apply_article(Head(arts), st))

\* lines 477-486: the masthead; find() gives None when the image is not there
apply_top(st) ==
    LET made == set_content(st.spec.top.caption)
    IN  IF "top" \notin DOMAIN st.spec THEN st
        ELSE IF st.masthead.img = "absent" THEN [st EXCEPT !.ended = "AttributeError"]
        ELSE [st EXCEPT
                 !.masthead = [img |-> st.spec.top.image, caption |-> made.kids],
                 !.ended = made.ended,
                 !.done = IF made.ended = "returned" THEN @ \o <<Done("top", "caption")>> ELSE @,
                 !.spec = IF made.ended = "returned" THEN without(@, "top") ELSE @]

\* Document.apply(transforms): how it ends, the document it leaves and what is left of
\* the specification
apply(entries, transforms, front) ==
    LET topped == apply_top([sibs |-> entries, spec |-> transforms, detached |-> <<>>,
                             masthead |-> front, done |-> <<>>, ended |-> "returned"])
        lowered == [i \in DOMAIN entries |-> lower_entry(entries[i])]
    IN  IF topped.ended # "returned" THEN topped
        ELSE apply_articles(articles(lowered), [topped EXCEPT !.sibs = lowered])

(***************************************************************************)
(* The newsletters and the specifications apply() is run on.               *)
(***************************************************************************)
TITLE_STYLE == <<"font-size: 16px;", "color: #595959;", "font-family: Segoe UI;">>
SHOUTED_STYLE == <<"FONT-SIZE: 16px;", "color: #595959;">>
CAPTION_STYLE == <<"font-size: 13px;", "color: #595959;">>

Title(style, name) == Elem("span", [style |-> style], <<Text(<<"\n", name, " ">>)>>)
Linked(node) == Elem("a", [name |-> <<"story">>], <<node>>)
BLANK_DIV == Elem("div", NoAttrs, <<Elem("br", NoAttrs, <<>>)>>)
OLD_BODY == Elem("div", [style |-> PARAGRAPH_STYLE], <<Text(<<"old">>)>>)
OLD_TABLE == Elem("table", NoAttrs, <<>>)
RETURN_TOP == Elem("a", [href |-> <<"#", "ReturnTop">>], <<Text(<<"Return to Top">>)>>)
NEWLINE == Text(<<"\n">>)

\* the shapes an article takes: as the template has it, with white space between the
\* elements and the title in an 'a', with a table for a body, with the body holding a
\* block equal to the marker before the return link, without return link, without
\* body; and a span that is not an article title
Blocks ==
    { <<Title(TITLE_STYLE, "A"), BLANK_DIV, OLD_BODY, BLANK_DIV, RETURN_TOP>>,
      <<NEWLINE, Linked(Title(SHOUTED_STYLE, "A")), NEWLINE, BLANK_DIV, NEWLINE, OLD_BODY,
        BLANK_DIV, NEWLINE, RETURN_TOP>>,
      <<Title(TITLE_STYLE, "A"), BLANK_DIV, OLD_TABLE, BLANK_DIV, RETURN_TOP>>,
      <<Title(TITLE_STYLE, "A"), BLANK_DIV, OLD_BODY, BLANK_DIV, OLD_BODY, BLANK_DIV, RETURN_TOP>>,
      <<Title(TITLE_STYLE, "A"), BLANK_DIV, OLD_BODY>>,
      <<Title(TITLE_STYLE, "A"), RETURN_TOP>>,
      <<Title(TITLE_STYLE, "B"), BLANK_DIV, OLD_BODY, BLANK_DIV, RETURN_TOP>>,
      <<Title(CAPTION_STYLE, "C"), BLANK_DIV, OLD_BODY, BLANK_DIV, RETURN_TOP>> }

RECURSIVE flatten(_)
flatten(blocks) == IF blocks = <<>> THEN <<>> ELSE Head(blocks) \o flatten(Tail(blocks))

\* the documents: some articles, one after the other; an element's id is its place
Newsletters ==
    {[i \in DOMAIN flatten(blocks) |-> [id |-> i, node |-> flatten(blocks)[i]]] :
        blocks \in UNION {[1..n -> Blocks] : n \in 1..MaxArticles}}

NEW_TITLE == <<[str |-> "New Title"]>>
NEW_BODY == << <<[str |-> "first"]>>, <<[str |-> "see "], [link |-> "https://a.org"]>> >>
BAD_BODY == << <<[str |-> "first"]>>, <<[bogus |-> "x"]>> >>
NEW_COLUMN == << <<[str |-> "column"]>> >>

GroupsOf ==
    [A |-> { [title |-> NEW_TITLE, body |-> NEW_BODY],
             [title |-> NEW_TITLE],
             [left |-> NEW_COLUMN, right |-> NEW_COLUMN, body |-> NEW_BODY],
             [left |-> NEW_COLUMN],
             [title |-> NEW_TITLE, body |-> BAD_BODY] },
     B |-> { [title |-> NEW_TITLE, body |-> NEW_BODY] },
     C |-> { [title |-> NEW_TITLE, body |-> NEW_BODY] },
     top |-> { [image |-> "National/front.jpg", caption |-> <<[str |-> "caption"]>>] }]

\* the specifications: any of the keys, each with one of its groups
Specifications ==
    UNION {{transform \in [keys -> UNION {GroupsOf[k] : k \in keys}] :
               \A k \in keys : transform[k] \in GroupsOf[k]} :
           keys \in SUBSET DOMAIN GroupsOf}

TEMPLATE_FRONT == [img |-> "20121101Top_1.jpg", caption |-> <<Text(<<"old caption">>)>>]
NO_FRONT == [img |-> "absent", caption |-> <<>>]

(***************************************************************************)
(* The specifications: one per operation of the Document.                  *)
(***************************************************************************)
IdleReview ==
    /\ doc = <<>> /\ before = <<>> /\ summary = NoSummary /\ log = <<>>
    /\ collected = <<>> /\ cache = QuietCache /\ nrev = 0

IdleRepair ==
    /\ file = NoTree /\ data = NoTree /\ loaded = NoTree /\ answer = NoAnswer /\ nrep = 0

IdleApply ==
    /\ sibs = <<>> /\ found = <<>> /\ detached = <<>> /\ masthead = NO_FRONT
    /\ specification = <<>> /\ remainder = <<>> /\ rendered = <<>>

NoFragment == [ended |-> "none", kids |-> <<>>]

IdleCompile == descriptor = [str |-> ""] /\ fragment = NoFragment /\ ncomp = 0

NoCode == [prolog |-> <<>>, head |-> <<>>, body |-> <<>>]

IdleText == code = NoCode /\ soup = NoCode /\ written = NoCode /\ nsave = 0

NoRows == <<>>
NoOutcome == [ended |-> "none"]

IdleCache ==
    /\ webpage_rows = NoRows
    /\ email_rows = NoRows
    /\ today = 0
    /\ args = <<>>
    /\ requested = <<>>
    /\ called = <<>>
    /\ outcome = NoOutcome

IdleLater == IdleCompile /\ IdleText /\ IdleCache

Init ==
    /\ doc \in Docs
    /\ cache \in Caches(doc)
    /\ before = doc
    /\ summary = NoSummary
    /\ log = <<>>
    /\ collected = <<>>
    /\ nrev = 0
    /\ op = "load"
    /\ IdleRepair
    /\ IdleApply
    /\ IdleLater

\* Document.review() on the loaded document
Review ==
    /\ nrev < MaxReviews
    /\ \E r \in {review(doc, cache)} :
           /\ doc' = r.tags
           /\ summary' = r.result
           /\ log' = r.lookups
           /\ collected' = r.anchors
    /\ before' = doc
    /\ nrev' = nrev + 1
    /\ op' = "review"
    /\ UNCHANGED <<cache, repairVars, applyVars, laterVars>>

Next == Review

Spec == Init /\ [][Next]_vars

InitRepair ==
    /\ file \in Trees
    /\ data = file
    /\ loaded = file
    /\ answer = NoAnswer
    /\ nrep = 0
    /\ op = "load"
    /\ IdleReview
    /\ IdleApply
    /\ IdleLater

\* the repair command of main.py: a Document is made of the file, repaired and, when
\* repair() returns, written back; the file is what the written text parses to
Repair ==
    /\ nrep < MaxRepairs
    /\ \E r \in {repair(file)} :
           /\ data' = r.data
           /\ answer' = r.result
           /\ op' = IF r.ended = "returned" THEN "repair" ELSE r.ended
           /\ file' = IF r.ended = "returned" THEN parse_tree(r.data) ELSE file
    /\ loaded' = file
    /\ nrep' = nrep + 1
    /\ UNCHANGED <<reviewVars, applyVars, laterVars>>

NextRepair == Repair

SpecRepair == InitRepair /\ [][NextRepair]_vars

InitApply ==
    /\ sibs \in Newsletters
    /\ found = sibs
    /\ detached = <<>>
    /\ specification \in Specifications
    /\ remainder = specification
    /\ rendered = <<>>
    /\ masthead \in IF "top" \in DOMAIN specification THEN {TEMPLATE_FRONT, NO_FRONT}
                    ELSE {TEMPLATE_FRONT}
    /\ op = "load"
    /\ IdleReview
    /\ IdleRepair
    /\ IdleLater

\* Document.apply() on the loaded document
Apply ==
    /\ op = "load"
    /\ \E r \in {apply(sibs, specification, masthead)} :
           /\ sibs' = r.sibs
           /\ detached' = r.detached
           /\ masthead' = r.masthead
           /\ remainder' = r.spec
           /\ rendered' = r.done
           /\ op' = IF r.ended = "returned" THEN "apply" ELSE r.ended
    /\ found' = sibs
    /\ UNCHANGED <<specification, reviewVars, repairVars, laterVars>>

NextApply == Apply

SpecApply == InitApply /\ [][NextApply]_vars

(***************************************************************************)
(* Document._set_content on one descriptor, called again and again on the  *)
(* same descriptor.                                                        *)
(***************************************************************************)
\* what each key of a mapping holds in the descriptors compiled
ValueOf ==
    [link |-> "https://a.org", file |-> "docs/a b.pdf", email |-> "a@b.com",
     image |-> "National/front.jpg",
     bold |-> <<[str |-> "b"]>>, italics |-> <<[str |-> "i"]>>,
     underline |-> <<[str |-> "u"], [link |-> "https://a.org"]>>,
     anchor |-> "story", jump |-> "story",
     numbers |-> << <<[str |-> "one"]>>, <<[bold |-> <<[str |-> "two"]>>]>> >>,
     bullets |-> << <<[str |-> "x"]>> >>,
     text |-> "click", caption |-> <<[str |-> "cap"]>>, bogus |-> "x"]

\* the descriptors: the literals, and the mappings of up to MaxKeys keys
Descriptors ==
    {[str |-> "plain"], [str |-> ""], [num |-> 13]}
    \cup {[k \in keys |-> ValueOf[k]] :
             keys \in {ks \in SUBSET DOMAIN ValueOf : 1 <= Cardinality(ks) /\ Cardinality(ks) <= MaxKeys}}

InitCompile ==
    /\ descriptor \in Descriptors
    /\ fragment = NoFragment
    /\ ncomp = 0
    /\ op = "load"
    /\ IdleReview
    /\ IdleRepair
    /\ IdleApply
    /\ IdleText
    /\ IdleCache

\* _set_content(parent_tag, descriptor): a content that is not a list is made a list of
\* one (lines 382-383); the parent is cleared and holds what the items compile to
SetContent ==
    /\ ncomp < MaxCompiles
    /\ fragment' = set_content(<<descriptor>>)
    /\ ncomp' = ncomp + 1
    /\ op' = "compile"
    /\ UNCHANGED <<descriptor, reviewVars, repairVars, applyVars, textVars, cacheVars>>

NextCompile == SetContent

SpecCompile == InitCompile /\ [][NextCompile]_vars

(***************************************************************************)
(* Document.__init__ and Document.__str__ (src/src/document.py, 22-34 and  *)
(* 524-530).  The markup is [prolog, head, body]: the prolog is what       *)
(* stands before the html element, a doctype and comments, each holding    *)
(* one symbol; head and body are sequences of nodes as above.  The symbols *)
(* are the legacy doctype as the newsletter platform writes it, with       *)
(* curly quotes, and as HTML has it, with straight quotes, each in the     *)
(* capitals of the source and in another letter case, and the HTML5        *)
(* doctype.                                                                *)
(***************************************************************************)
CURLY == "<!DOCTYPE HTML PUBLIC (curly)-//W3C//DTD HTML 4.01 Transitional//EN(curly)>"
CURLY_CASED == "<!doctype html public (curly)-//W3C//DTD HTML 4.01 Transitional//EN(curly)>"
STRAIGHT == "<!DOCTYPE HTML PUBLIC \"-//W3C//DTD HTML 4.01 Transitional//EN\">"
STRAIGHT_CASED == "<!DOCTYPE html PUBLIC \"-//W3C//DTD HTML 4.01 Transitional//EN\">"
HTML5 == "<!DOCTYPE html>"

\* the re.sub of lines 30-33 on one symbol: curly to straight, in any letter case
straighten(sym) == IF sym \in {CURLY, CURLY_CASED} THEN STRAIGHT ELSE sym

\* the re.sub of lines 527-529 on one symbol: straight to curly, in any letter case
\* variant: without re.I
curl_exact(sym) == IF sym = STRAIGHT THEN CURLY ELSE sym

curl(sym) == IF sym \in {STRAIGHT, STRAIGHT_CASED} THEN CURLY ELSE sym

\* the doctype as the parser keeps it and str() prints it: the name in lower case,
\* the public identifier when it is quoted with straight quotes
print_doctype(sym) == IF sym \in {STRAIGHT, STRAIGHT_CASED} THEN STRAIGHT_CASED ELSE HTML5

\* either re.sub on one item of the prolog: the pattern is looked for in the whole text,
\* in the doctype and in what a comment holds
sub_item(item, load) ==
    LET sym == IF "doctype" \in DOMAIN item THEN item.doctype ELSE item.comment
        out == IF load THEN straighten(sym) ELSE curl(sym)
    IN  IF "doctype" \in DOMAIN item THEN [doctype |-> out] ELSE [comment |-> out]

\* bs4.BeautifulSoup(code, 'html5lib') on the prolog: a comment is kept as written
parse_prolog(prolog) ==
    [i \in DOMAIN prolog |->
        IF "doctype" \in DOMAIN prolog[i] THEN [doctype |-> print_doctype(prolog[i].doctype)]
        ELSE prolog[i]]

\* Document.__init__: the doctype fix, then the parse
Document(markup) ==
    [prolog |-> parse_prolog([i \in DOMAIN markup.prolog |-> sub_item(markup.prolog[i], TRUE)]),
     head |-> parse(markup.head), body |-> parse(markup.body)]

\* Document.__str__: str(self._data), then the doctype fix the other way
Document_str(document) ==
    [prolog |-> [i \in DOMAIN document.prolog |-> sub_item(document.prolog[i], FALSE)],
     head |-> document.head, body |-> document.body]

Doctypes == {CURLY, CURLY_CASED, STRAIGHT, STRAIGHT_CASED, HTML5}

Prologs ==
    {<<>>} \cup {<<[doctype |-> d]>> : d \in Doctypes}
    \cup {<<[doctype |-> d], [comment |-> c]>> : d \in {CURLY, STRAIGHT}, c \in {CURLY, STRAIGHT, HTML5}}

\* the markup of the files: any prolog, and up to MaxNodes nodes in the body
Markups ==
    [prolog : Prologs, head : Heads, body : UNION {[1..n -> BodyPool] : n \in 0..MaxNodes}]

InitText ==
    /\ code \in Markups
    /\ soup = NoCode
    /\ written = code
    /\ nsave = 0
    /\ op = "load"
    /\ IdleReview
    /\ IdleRepair
    /\ IdleApply
    /\ IdleCompile
    /\ IdleCache

\* html_doc = document.Document(get_code(args.file))
Open ==
    /\ op # "open"
    /\ nsave < MaxSaves
    /\ soup' = Document(code)
    /\ written' = code
    /\ op' = "open"
    /\ UNCHANGED <<code, nsave, reviewVars, repairVars, applyVars, compileVars, cacheVars>>

\* set_code(args.file, html_doc), with neither review() nor repair() called
Save ==
    /\ op = "open"
    /\ code' = Document_str(soup)
    /\ nsave' = nsave + 1
    /\ op' = "save"
    /\ UNCHANGED <<soup, written, reviewVars, repairVars, applyVars, compileVars, cacheVars>>

NextText == Open \/ Save

SpecText == InitText /\ [][NextText]_vars

(***************************************************************************)
(* The cache (src/src/cache.py) and the lookup commands (src/src/main.py,  *)
(* 125-147).  A table is a function from the keys it holds to their rows;  *)
(* time is counted in days.  What requests.get meets online is an answer:  *)
(* for a webpage a status or a fault, for the verification of an address   *)
(* the JSON of the service or a fault.                                     *)
(***************************************************************************)
MAX_AGE == 14

\* variant: INSERT OR IGNORE, the row that is there stays
put_if_absent(rows, key, row) ==
    [k \in DOMAIN rows \cup {key} |-> IF k \in DOMAIN rows THEN rows[k] ELSE row]

\* INSERT OR REPLACE INTO the table
put(rows, key, row) == [k \in DOMAIN rows \cup {key} |-> IF k = key THEN row ELSE rows[k]]

WebAnswers == {[status |-> 200], [status |-> 404],
               [fault |-> "ConnectionError"], [fault |-> "TooManyRedirects"]}

\* the faults of requests.get, of response.json() and of results[...]; a JSON value that
\* is no object makes results['safe_to_send'] a TypeError, an object without the key a
\* KeyError
MailAnswers == {[safe_to_send |-> "true", reason |-> "accepted_email"],
                [safe_to_send |-> "false", reason |-> "rejected_email"],
                [fault |-> "ConnectionError"], [fault |-> "ValueError"],
                [fault |-> "KeyError"], [fault |-> "TypeError"]}

\* what the verification service answers to the requests of one call, in order: a second
\* request is made only when the first ended in a TypeError, else the answer stands
MailStreams ==
    {<<met, met>> : met \in MailAnswers} \cup {<<[fault |-> "TypeError"], met>> : met \in MailAnswers}

\* Cache.lookup_webpage: only a ConnectionError is caught and stored as 410
Cache_lookup_webpage(rows, url, met, now) ==
    IF "status" \in DOMAIN met
    THEN [ended |-> "returned", asked |-> <<[key |-> url, met |-> met]>>,
          rows |-> put(rows, url, [status |-> met.status, last_lookup |-> now])]
    ELSE IF met.fault = "ConnectionError"
    THEN [ended |-> "returned", asked |-> <<[key |-> url, met |-> met]>>,
          rows |-> put(rows, url, [status |-> 410, last_lookup |-> now])]
    ELSE [ended |-> met.fault, asked |-> <<[key |-> url, met |-> met]>>, rows |-> rows]

\* Cache.lookup_email: nothing is caught
Cache_lookup_email(rows, address, met, now) ==
    IF "fault" \in DOMAIN met
    THEN [ended |-> met.fault, asked |-> <<[key |-> address, met |-> met]>>, rows |-> rows]
    ELSE [ended |-> "returned", asked |-> <<[key |-> address, met |-> met]>>,
          rows |-> put(rows, address, [is_valid |-> met.safe_to_send # "false",
                                       reason |-> met.reason, last_lookup |-> now])]

\* variant: a row is too old only when it is older than MAX_AGE
too_old_strictly(row, now) == now - row.last_lookup > MAX_AGE

\* the test of lines 123 and 175
too_old(row, now) == now - row.last_lookup >= MAX_AGE

\* InfoHolder(url=..., status=..., last_lookup=...) of a row
webpage_info(url, row) == [url |-> url, status |-> row.status, last_lookup |-> row.last_lookup]

\* InfoHolder(address=..., is_valid=..., reason=..., last_lookup=...) of a row
email_info(address, row) ==
    [address |-> address, is_valid |-> row.is_valid, reason |-> row.reason,
     last_lookup |-> row.last_lookup]

\* how a call that raised ends: the rows as the call left them and no info
raised(fault, rows, asked) == [ended |-> fault, rows |-> rows, requested |-> asked]

\* lines 123-125, the key being in the table: an old row is looked up again, and the
\* response fetched before the lookup is what the info is made of
webpage_hit(rows, url, nolookup, looked, now) ==
    IF too_old(rows[url], now) /\ ~nolookup
    THEN IF looked.ended = "returned"
         THEN [ended |-> "returned", rows |-> looked.rows, requested |-> looked.asked,
               info |-> webpage_info(url, rows[url])]
         ELSE raised(looked.ended, looked.rows, looked.asked)
    ELSE [ended |-> "returned", rows |-> rows, requested |-> <<>>,
          info |-> webpage_info(url, rows[url])]

\* variant: a miss with nolookup is looked up all the same
webpage_miss_looked_up(rows, url, nolookup, looked) ==
    IF looked.ended = "returned"
    THEN [ended |-> "returned", rows |-> looked.rows, requested |-> looked.asked,
          info |-> webpage_info(url, looked.rows[url])]
    ELSE raised(looked.ended, looked.rows, looked.asked)

\* lines 126-131, response being None: the TypeError branch
webpage_miss(rows, url, nolookup, looked) ==
    IF nolookup THEN raised("CacheMissException", rows, <<>>)
    ELSE IF looked.ended = "returned"
    THEN [ended |-> "returned", rows |-> looked.rows, requested |-> looked.asked,
          info |-> webpage_info(url, looked.rows[url])]
    ELSE raised(looked.ended, looked.rows, looked.asked)

\* Cache.get_webpage(url, nolookup=...)
Cache_get_webpage(rows, url, nolookup, met, now) ==
    IF url \in DOMAIN rows
    THEN webpage_hit(rows, url, nolookup, Cache_lookup_webpage(rows, url, met, now), now)
    ELSE webpage_miss(rows, url, nolookup, Cache_lookup_webpage(rows, url, met, now))

\* lines 178-183 once lookup_email raised a TypeError inside the try: the except clause
\* takes it for a miss and looks the address up once more
email_retry(rows, address, looked, again) ==
    IF again.ended = "returned"
    THEN [ended |-> "returned", rows |-> again.rows, requested |-> looked.asked \o again.asked,
          info |-> email_info(address, again.rows[address])]
    ELSE raised(again.ended, again.rows, looked.asked \o again.asked)

\* lines 175-177, the key being in the table
email_hit(rows, address, nolookup, looked, again, now) ==
    IF too_old(rows[address], now) /\ ~nolookup
    THEN IF looked.ended = "returned"
         THEN [ended |-> "returned", rows |-> looked.rows, requested |-> looked.asked,
               info |-> email_info(address, rows[address])]
         ELSE IF looked.ended = "TypeError" THEN email_retry(rows, address, looked, again)
         ELSE raised(looked.ended, looked.rows, looked.asked)
    ELSE [ended |-> "returned", rows |-> rows, requested |-> <<>>,
          info |-> email_info(address, rows[address])]

\* lines 178-183, response being None
email_miss(rows, address, nolookup, looked) ==
    IF nolookup THEN raised("CacheMissException", rows, <<>>)
    ELSE IF looked.ended = "returned"
    THEN [ended |-> "returned", rows |-> looked.rows, requested |-> looked.asked,
          info |-> email_info(address, looked.rows[address])]
    ELSE raised(looked.ended, looked.rows, looked.asked)

\* Cache.get_email(address, nolookup=...); answers are those of the requests in order
Cache_get_email(rows, address, nolookup, answers, now) ==
    IF address \in DOMAIN rows
    THEN email_hit(rows, address, nolookup, Cache_lookup_email(rows, address, answers[1], now),
                   Cache_lookup_email(rows, address, answers[2], now), now)
    ELSE email_miss(rows, address, nolookup, Cache_lookup_email(rows, address, answers[1], now))

\* variant: --forced goes straight to the get
forced_step_skipped(rows, name, key, forced, looked) ==
    [ended |-> "returned", rows |-> rows, called |-> <<>>, requested |-> <<>>]

\* the first step of main.lookup_url and main.lookup_email: the lookup that --forced asks
\* for, given how it went
forced_step(rows, name, key, forced, looked) ==
    IF forced
    THEN [ended |-> looked.ended, rows |-> looked.rows,
          called |-> <<[name |-> name, key |-> key]>>, requested |-> looked.asked]
    ELSE [ended |-> "returned", rows |-> rows, called |-> <<>>, requested |-> <<>>]

\* the second step, unless the first raised: get_*(key, nolookup=args.cached), its info
\* printed, a CacheMissException turned into exit('... is not in the cache.')
get_step(first, name, key, cached, got) ==
    IF first.ended # "returned"
    THEN [ended |-> first.ended, rows |-> first.rows, called |-> first.called,
          requested |-> first.requested, shown |-> <<>>]
    ELSE [ended |-> IF got.ended = "returned" THEN "printed"
                    ELSE IF got.ended = "CacheMissException" THEN "exit" ELSE got.ended,
          rows |-> got.rows,
          called |-> first.called \o <<[name |-> name, key |-> key, nolookup |-> cached]>>,
          requested |-> first.requested \o got.requested,
          shown |-> IF got.ended = "returned" THEN <<got.info>>
                    ELSE IF got.ended = "CacheMissException" THEN <<key, " is not in the cache.">>
                    ELSE <<>>]

\* main.lookup_url(args)
url_got(first, url, cached, met, now) ==
    get_step(first, "get_webpage", url, cached, Cache_get_webpage(first.rows, url, cached, met, now))

lookup_url(rows, url, forced, cached, met, now) ==
    url_got(forced_step(rows, "lookup_webpage", url, forced,
                        Cache_lookup_webpage(rows, url, met, now)),
            url, cached, met, now)

\* main.lookup_email(args); answers are those of the requests in order, and go round
email_got(first, address, cached, answers, now) ==
    get_step(first, "get_email", address, cached,
             Cache_get_email(first.rows, address, cached, answers, now))

main_lookup_email(rows, address, forced, cached, answers, now) ==
    email_got(forced_step(rows, "lookup_email", address, forced,
                          Cache_lookup_email(rows, address, answers[1], now)),
              address, cached, IF forced THEN Tail(answers) \o answers ELSE answers, now)

Pages == {URL_A}
Mailboxes == {ADDRESS}

InitCache ==
    /\ IdleCache
    /\ op = "open"
    /\ IdleReview
    /\ IdleRepair
    /\ IdleApply
    /\ IdleCompile
    /\ IdleText

elsewhere == <<reviewVars, repairVars, applyVars, compileVars, textVars>>

\* days pass, six or seven at a time
Tick ==
    /\ \E days \in {6, 7} :
           /\ today + days <= MaxDay
           /\ today' = today + days
    /\ op' = "tick"
    /\ args' = <<>>
    /\ requested' = <<>>
    /\ called' = <<>>
    /\ outcome' = NoOutcome
    /\ UNCHANGED <<webpage_rows, email_rows, elsewhere>>

\* cache.lookup_webpage(url)
LookupWebpage ==
    \E url \in Pages, met \in WebAnswers :
        \E r \in {Cache_lookup_webpage(webpage_rows, url, met, today)} :
            /\ webpage_rows' = r.rows
            /\ op' = "Cache.lookup_webpage"
            /\ args' = [key |-> url]
            /\ requested' = r.asked
            /\ called' = <<>>
            /\ outcome' = [ended |-> r.ended]
            /\ UNCHANGED <<email_rows, today, elsewhere>>

\* cache.lookup_email(address)
LookupEmail ==
    \E address \in Mailboxes, met \in MailAnswers :
        \E r \in {Cache_lookup_email(email_rows, address, met, today)} :
            /\ email_rows' = r.rows
            /\ op' = "Cache.lookup_email"
            /\ args' = [key |-> address]
            /\ requested' = r.asked
            /\ called' = <<>>
            /\ outcome' = [ended |-> r.ended]
            /\ UNCHANGED <<webpage_rows, today, elsewhere>>

\* what a get_* call leaves in outcome
got_outcome(r) ==
    IF r.ended = "returned" THEN [ended |-> "returned", info |-> r.info] ELSE [ended |-> r.ended]

\* cache.get_webpage(url, nolookup=nolookup)
GetWebpage ==
    \E url \in Pages, nolookup \in BOOLEAN, met \in WebAnswers :
        \E r \in {Cache_get_webpage(webpage_rows, url, nolookup, met, today)} :
            /\ webpage_rows' = r.rows
            /\ op' = "Cache.get_webpage"
            /\ args' = [key |-> url, nolookup |-> nolookup]
            /\ requested' = r.requested
            /\ called' = <<>>
            /\ outcome' = got_outcome(r)
            /\ UNCHANGED <<email_rows, today, elsewhere>>

\* cache.get_email(address, nolookup=nolookup)
GetEmail ==
    \E address \in Mailboxes, nolookup \in BOOLEAN, answers \in MailStreams :
        \E r \in {Cache_get_email(email_rows, address, nolookup, answers, today)} :
            /\ email_rows' = r.rows
            /\ op' = "Cache.get_email"
            /\ args' = [key |-> address, nolookup |-> nolookup]
            /\ requested' = r.requested
            /\ called' = <<>>
            /\ outcome' = got_outcome(r)
            /\ UNCHANGED <<webpage_rows, today, elsewhere>>

\* what a lookup command leaves in outcome
shown_outcome(r) == [ended |-> r.ended, shown |-> r.shown]

\* what argparse makes of -f together with -c (main.py 254-259 and 271-276): the options
\* are in a mutually exclusive group, the command is not run
NotAllowed ==
    /\ requested' = <<>>
    /\ called' = <<>>
    /\ outcome' = [ended |-> "usage", shown |-> <<"not allowed with argument">>]

\* the command 'lookup webpage [-c|-f] <url>'
LookupUrlCommand ==
    \E url \in Pages, forced \in BOOLEAN, cached \in BOOLEAN, met \in WebAnswers :
        /\ op' = "lookup webpage"
        /\ args' = [key |-> url, forced |-> forced, cached |-> cached]
        /\ IF forced /\ cached
           THEN NotAllowed /\ UNCHANGED webpage_rows
           ELSE \E r \in {lookup_url(webpage_rows, url, forced, cached, met, today)} :
                    /\ webpage_rows' = r.rows
                    /\ requested' = r.requested
                    /\ called' = r.called
                    /\ outcome' = shown_outcome(r)
        /\ UNCHANGED <<email_rows, today, elsewhere>>

\* the command 'lookup email [-c|-f] <address>'
LookupEmailCommand ==
    \E address \in Mailboxes, forced \in BOOLEAN, cached \in BOOLEAN,
       answers \in MailStreams :
        /\ op' = "lookup email"
        /\ args' = [key |-> address, forced |-> forced, cached |-> cached]
        /\ IF forced /\ cached
           THEN NotAllowed /\ UNCHANGED email_rows
           ELSE \E r \in {main_lookup_email(email_rows, address, forced, cached, answers, today)} :
                    /\ email_rows' = r.rows
                    /\ requested' = r.requested
                    /\ called' = r.called
                    /\ outcome' = shown_outcome(r)
        /\ UNCHANGED <<webpage_rows, today, elsewhere>>

\* the link and the mailto link that review() meets in these runs
LinkTo(url) == [id |-> 1, attrs |-> [href |-> url, target |-> <<"_blank">>], contents |-> <<"X">>]
MailTo(address) == [id |-> 1, attrs |-> [href |-> <<"mailto:">> \o address], contents |-> <<"X">>]

\* the cache as _fix_external_link and _fix_email see it through one get_* call
answering(key, r) ==
    [web |-> [u \in {key} \cap Pages |-> r.info.status],
     mail |-> [a \in {key} \cap Mailboxes |-> [is_valid |-> r.info.is_valid, reason |-> r.info.reason]]]

\* what review() of one link leaves in outcome: the fault of get_* when it raised, else
\* the link as marked and the result
fixed_outcome(r, fixed) ==
    IF r.ended = "returned"
    THEN [ended |-> "returned", tags |-> fixed.tags, result |-> fixed.result]
    ELSE [ended |-> r.ended]

\* Document.review() of a document of one external link (lines 109-120 in it)
ReviewLink ==
    \E url \in Pages, met \in WebAnswers :
        \E r \in {Cache_get_webpage(webpage_rows, url, FALSE, met, today)} :
            /\ webpage_rows' = r.rows
            /\ op' = "review link"
            /\ args' = [key |-> url]
            /\ requested' = r.requested
            /\ called' = <<[name |-> "get_webpage", key |-> url, nolookup |-> FALSE]>>
            /\ outcome' = fixed_outcome(r, IF r.ended = "returned"
                                           THEN fix_external_link(LinkTo(url), answering(url, r))
                                           ELSE r)
            /\ UNCHANGED <<email_rows, today, elsewhere>>

\* Document.review() of a document of one mailto link (lines 166-176 in it)
ReviewEmail ==
    \E address \in Mailboxes, answers \in MailStreams :
        \E r \in {Cache_get_email(email_rows, address, FALSE, answers, today)} :
            /\ email_rows' = r.rows
            /\ op' = "review email"
            /\ args' = [key |-> address]
            /\ requested' = r.requested
            /\ called' = <<[name |-> "get_email", key |-> address, nolookup |-> FALSE]>>
            /\ outcome' = fixed_outcome(r, IF r.ended = "returned"
                                           THEN fix_email(MailTo(address), answering(address, r))
                                           ELSE r)
            /\ UNCHANGED <<webpage_rows, today, elsewhere>>

NextCache ==
    \/ Tick
    \/ LookupWebpage
    \/ LookupEmail
    \/ GetWebpage
    \/ GetEmail
    \/ LookupUrlCommand
    \/ LookupEmailCommand
    \/ ReviewLink
    \/ ReviewEmail

SpecCache == InitCache /\ [][NextCache]_vars

(***************************************************************************)
(* Cache.set_webpage and Cache.set_email (src/src/cache.py, 136-147 and    *)
(* 188-200): the entries that the user marks by hand, among the lookups    *)
(* and the gets.                                                           *)
(***************************************************************************)
\* the statuses of 'mark webpage': --ok, --bad, --down, --teapot
MarkStatuses == {200, 400, 500, 418}

\* Cache.set_webpage(url, status)
Cache_set_webpage(rows, url, status, now) ==
    put(rows, url, [status |-> status, last_lookup |-> now])

\* Cache.set_email(address, is_valid)
Cache_set_email(rows, address, is_valid, now) ==
    put(rows, address, [is_valid |-> is_valid,
                        reason |-> IF is_valid THEN "user_verified" ELSE "user_refuted",
                        last_lookup |-> now])

SetWebpage ==
    \E url \in Pages, status \in MarkStatuses :
        /\ webpage_rows' = Cache_set_webpage(webpage_rows, url, status, today)
        /\ op' = "Cache.set_webpage"
        /\ args' = [key |-> url, status |-> status]
        /\ requested' = <<>>
        /\ called' = <<>>
        /\ outcome' = [ended |-> "returned"]
        /\ UNCHANGED <<email_rows, today, elsewhere>>

SetEmail ==
    \E address \in Mailboxes, is_valid \in BOOLEAN :
        /\ email_rows' = Cache_set_email(email_rows, address, is_valid, today)
        /\ op' = "Cache.set_email"
        /\ args' = [key |-> address, is_valid |-> is_valid]
        /\ requested' = <<>>
        /\ called' = <<>>
        /\ outcome' = [ended |-> "returned"]
        /\ UNCHANGED <<webpage_rows, today, elsewhere>>

\* two weeks pass: what is in the cache is old
Fortnight ==
    /\ today + MAX_AGE <= MaxDay
    /\ today' = today + MAX_AGE
    /\ op' = "tick"
    /\ args' = <<>>
    /\ requested' = <<>>
    /\ called' = <<>>
    /\ outcome' = NoOutcome
    /\ UNCHANGED <<webpage_rows, email_rows, elsewhere>>

NextMark ==
    \/ Fortnight
    \/ SetWebpage
    \/ SetEmail
    \/ LookupWebpage
    \/ LookupEmail
    \/ GetWebpage
    \/ GetEmail

SpecMark == InitCache /\ [][NextMark]_vars

(***************************************************************************)
(* Claims about review().  'before' is the document the last review() was  *)
(* given, 'doc' what it left; an element keeps its id.                     *)
(***************************************************************************)
Reviewed == op = "review"
Ids(tags) == {tags[i].id : i \in DOMAIN tags}
Find(tags, id) == tags[CHOOSE i \in DOMAIN tags : tags[i].id = id]
Survivors(sel(_)) == {before[i].id : i \in {j \in DOMAIN before : sel(before[j]) /\ before[j].id \in Ids(doc)}}
BlankText(tag) == \A k \in DOMAIN tag.contents : tag.contents[k] \in {"", " ", "\n"}
LookupsOf(id, kind) == {k \in DOMAIN log : log[k].id = id /\ log[k].kind = kind}

\* C1: review() removes exactly the external links whose href is "" or ##TrackClick## or
\* whose text is blank, and the links tally's 'removed' is their number.
C1_UselessExternalLinksRemoved ==
    Reviewed =>
        LET ext == {i \in DOMAIN before : is_external(before[i])}
            useless == {i \in ext : \/ before[i].attrs.href = <<>>
                                    \/ before[i].attrs.href = <<"##", "TrackClick", "##">>
                                    \/ BlankText(before[i])}
        IN  /\ \A i \in ext : i \in useless <=> before[i].id \notin Ids(doc)
            /\ summary.links.removed = Cardinality(useless)

C1_Witness ==
    /\ Reviewed
    /\ \E i, j \in DOMAIN before :
          /\ is_external(before[i]) /\ before[i].attrs.href = <<>>
          /\ before[i].id \notin Ids(doc)
          /\ is_external(before[j]) /\ before[j].id \in Ids(doc)
    /\ summary.links.removed = 1

BlankTargets == {<<"_blank">>, <<"_BLANK">>}
NeedsTarget(tag) == ~has_attr(tag, "target") \/ tag.attrs.target \notin BlankTargets

\* C2 (as stated): after review() every surviving external link has target exactly "_blank",
\* whatever its target was before, any case variant of _blank included.
C2_TargetExactlyBlank ==
    Reviewed => \A id \in Survivors(is_external) :
                    has_attr(Find(doc, id), "target") /\ Find(doc, id).attrs.target = <<"_blank">>

\* C2 (amended): after review() every surviving external link has a target that is _blank
\* up to case: a target that was absent or not _blank up to case is now exactly "_blank",
\* one that was _blank up to case is kept as written; 'retargetted' counts the former, and
\* a second review() tallies retargetted = 0.
C2_TargetBlankUpToCase ==
    Reviewed =>
        /\ \A id \in Survivors(is_external) :
              LET b == Find(before, id)
                  a == Find(doc, id)
              IN  /\ has_attr(a, "target")
                  /\ IF NeedsTarget(b) THEN a.attrs.target = <<"_blank">>
                     ELSE a.attrs.target = b.attrs.target
        /\ summary.links.retargetted =
              Cardinality({id \in Survivors(is_external) : NeedsTarget(Find(before, id))})
        /\ (nrev >= 2 => summary.links.retargetted = 0)

C2_Witness ==
    /\ Reviewed
    /\ \E id \in Survivors(is_external) :
          /\ has_attr(Find(before, id), "target")
          /\ Find(before, id).attrs.target = <<"_self">>
          /\ Find(doc, id).attrs.target = <<"_blank">>
    /\ \E id \in Survivors(is_external) : ~has_attr(Find(before, id), "target")
    /\ summary.links.retargetted = 2

\* C3: a looked-up external link is marked by the status returned: 403 prepends *UNCHECKED*
\* (tally unchecked), any other status in [400,600) prepends *BROKEN <status>* (tally broken),
\* any other status leaves the content alone; never both markers on one link.
C3_StatusDecidesMarker ==
    Reviewed =>
        LET looked == {k \in DOMAIN log : log[k].kind = "webpage"}
            status(k) == cache.web[log[k].key]
            isBroken(k) == status(k) >= 400 /\ status(k) <= 599 /\ status(k) # 403
        IN  /\ \A k \in looked :
                  /\ log[k].id \in Ids(doc)
                  /\ LET b == Find(before, log[k].id).contents
                         a == Find(doc, log[k].id).contents
                     IN  a = IF status(k) = 403 THEN <<"*UNCHECKED*">> \o b
                             ELSE IF isBroken(k) THEN <<"*BROKEN " \o ToString(status(k)) \o "*">> \o b
                             ELSE b
            /\ summary.links.unchecked = Cardinality({k \in looked : status(k) = 403})
            /\ summary.links.broken = Cardinality({k \in looked : isBroken(k)})

C3_Witness ==
    /\ Reviewed
    /\ \E id \in Survivors(is_external) :
          /\ has_attr(Find(before, id), "target")
          /\ Find(before, id).attrs.target = <<"_self">>
          /\ Find(before, id).contents = <<"X">>
          /\ Find(doc, id).attrs.target = <<"_blank">>
          /\ Find(doc, id).contents = <<"*BROKEN 410*", "X">>
    /\ \E id \in Survivors(is_external) : Find(doc, id).contents = <<"*UNCHECKED*", "X">>
    /\ summary.links.broken = 1 /\ summary.links.unchecked = 1 /\ summary.links.retargetted >= 1

\* the hrefs of the pool that carry the redirect wrapper, and the value of their url parameter
Tracked == {DOUBLE_B, DOUBLE_B_MORE, TRIPLE_B}
InnerUrl(href) == IF href = TRIPLE_B THEN DOUBLE_B ELSE URL_B
HasWrapper(href) == Len(href) >= 3 /\ SubSeq(href, 1, 3) = WRAPPER

NameOf(tag) == SubSeq(tag.attrs.href, 2, Len(tag.attrs.href))
MissingText(tag) == IF NameOf(tag) = <<"n1">> THEN "*MISSING n1*" ELSE "*MISSING n2*"
MarkedMissing(id) == Find(doc, id).contents = <<MissingText(Find(before, id))>> \o Find(before, id).contents
AnchorNames(tags) == {tags[i].attrs.name : i \in {j \in DOMAIN tags : has_attr(tags[j], "name")}}

C6_InfoDecidesMarker ==
    Reviewed =>
        LET emails == {i \in DOMAIN before : is_email(before[i])}
            blank == {i \in emails : BlankText(before[i])}
            looked == {k \in DOMAIN log : log[k].kind = "email"}
            info(k) == cache.mail[log[k].key]
        IN  /\ \A i \in blank :
                  before[i].id \notin Ids(doc) /\ LookupsOf(before[i].id, "email") = {}
            /\ \A i \in emails \ blank :
                  /\ before[i].id \in Ids(doc)
                  /\ Cardinality(LookupsOf(before[i].id, "email")) = 1
                  /\ \A k \in LookupsOf(before[i].id, "email") :
                        Find(doc, before[i].id).contents =
                            IF info(k).is_valid THEN before[i].contents
                            ELSE IF info(k).reason = "accepted_email"
                                 THEN <<"*UNCHECKED*">> \o before[i].contents
                                 ELSE <<"*INVALID " \o info(k).reason \o "*">> \o before[i].contents
            /\ summary.emails.removed = Cardinality(blank)
            /\ summary.emails.unchecked =
                  Cardinality({k \in looked : ~info(k).is_valid /\ info(k).reason = "accepted_email"})
            /\ summary.emails.invalid =
                  Cardinality({k \in looked : ~info(k).is_valid /\ info(k).reason # "accepted_email"})

C6_Witness ==
    /\ Reviewed
    /\ \E id \in Survivors(is_email) : Find(doc, id).contents = <<"*INVALID rejected_email*", "X">>
    /\ \E i \in DOMAIN before : is_email(before[i]) /\ BlankText(before[i]) /\ before[i].id \notin Ids(doc)
    /\ summary.emails.invalid = 1 /\ summary.emails.removed = 1 /\ summary.emails.unchecked = 0

\* the places where %20 starts in a string, and the string without the symbols they cover
Starts(str) == {p \in 1..(Len(str) - 2) : str[p] = "%" /\ str[p + 1] = "2" /\ str[p + 2] = "0"}
Without(str) ==
    LET keep == {p \in DOMAIN str : \A q \in Starts(str) : p < q \/ p > q + 2}
        nth(n) == CHOOSE p \in keep : Cardinality({q \in keep : q < p}) = n - 1
    IN  [n \in 1..Cardinality(keep) |-> str[nth(n)]]

Ran == nrep > 0
ZeroAnswer == [typos |-> 0, styles |-> 0, background |-> 0]
FirstDivIsGray(body) ==
    \E i \in DOMAIN body :
        /\ is_tag(body[i]) /\ body[i].name = "div"
        /\ \A j \in 1..(i - 1) : ~(is_tag(body[j]) /\ body[j].name = "div")
        /\ has_attr(body[i], "style") /\ body[i].attrs.style = GRAY
AlreadyCorrect(tree) ==
    /\ FirstDivIsGray(tree.body)
    /\ count_style(tree.head) + count_style(tree.body) = 0
    /\ typos_in(tree.head) + typos_in(tree.body) = 0

\* C8: repair() on a document that is already correct (the first div under body is the
\* gray wrapper, there is no style element and no misspelt domain) returns, leaves the
\* tree as it was and answers typos = 0, styles = 0, background = 0.
C8_CorrectDocumentUntouched ==
    Ran /\ AlreadyCorrect(loaded) =>
        op = "repair" /\ data = loaded /\ file = loaded /\ answer = ZeroAnswer

C8_Witness ==
    /\ Ran /\ nrep = 1 /\ AlreadyCorrect(loaded)
    /\ Len(loaded.body) = 3 /\ ~is_tag(loaded.body[1]) /\ is_tag(loaded.body[2])
    /\ data = loaded /\ answer = ZeroAnswer

\* the first child of body that is an element, 0 when it has none
FirstElement(body) ==
    LET elems == {i \in DOMAIN body : is_tag(body[i])}
    IN  IF elems = {} THEN 0 ELSE CHOOSE i \in elems : \A j \in elems : i <= j
IsGrayDiv(node) ==
    is_tag(node) /\ node.name = "div" /\ has_attr(node, "style") /\ node.attrs.style = GRAY

\* C9 (as stated): repair() looks at the first child of body (the first element, once the
\* style elements are gone): when it is not a div with exactly the gray style, repair()
\* returns, wraps all the children of body, in order, in a new gray div that is the only
\* child of body, and answers background = 1; otherwise body is left and background = 0.
C9_FirstChildDecides ==
    Ran =>
        LET body == decompose_style(parse(fix_typos(loaded.body)))
            first == FirstElement(body)
        IN  /\ op = "repair"
            /\ IF first # 0 /\ IsGrayDiv(body[first])
               THEN data.body = body /\ answer.background = 0
               ELSE /\ data.body = <<Elem("div", [style |-> GRAY], body)>>
                    /\ answer.background = 1

(***************************************************************************)
(* Claims about apply().  'found' is the document apply() was given,       *)
(* 'specification' the mapping it was passed, 'remainder' what is left of  *)
(* it.                                                                     *)
(***************************************************************************)
Applied == op = "apply"
RECURSIVE TrimLeft(_)
TrimLeft(str) == IF str # <<>> /\ Head(str) \in {" ", "\n"} THEN TrimLeft(Tail(str)) ELSE str
RECURSIVE TrimRight(_)
TrimRight(str) ==
    IF str # <<>> /\ str[Len(str)] \in {" ", "\n"} THEN TrimRight(SubSeq(str, 1, Len(str) - 1))
    ELSE str
ArticleTitles ==
    {join(TrimRight(TrimLeft(node_text(found[i].node)))) :
        i \in {j \in DOMAIN found : is_art(lower_entry(found[j]))}}
FullyDescribed(group) == DOMAIN group = {"title", "body"}
Consumed(key, part) ==
    /\ key \in DOMAIN specification /\ part \in DOMAIN specification[key]
    /\ key \in DOMAIN remainder => part \notin DOMAIN remainder[key]

Capabilities ==
    {"link", "file", "email", "image", "bold", "italics", "underline", "anchor", "jump",
     "numbers", "bullets"}
Unrecognized(item) == DOMAIN item \cap ({"str", "num"} \cup Capabilities) = {}
HoldsUnrecognized(content) ==
    \E p \in DOMAIN content : \E k \in DOMAIN content[p] : Unrecognized(content[p][k])

\* apply() was run on a newsletter that opens with the article A as the template has
\* it, with a group for A whose body holds a mapping without capability key
MetUnrecognized ==
    /\ op # "load"
    /\ "top" \notin DOMAIN specification
    /\ Len(found) >= 5
    /\ [i \in 1..5 |-> found[i].node] =
           <<Title(TITLE_STYLE, "A"), BLANK_DIV, OLD_BODY, BLANK_DIV, RETURN_TOP>>
    /\ "A" \in DOMAIN specification
    /\ DOMAIN specification.A = {"title", "body"}
    /\ HoldsUnrecognized(specification.A.body)

\* C11: when the compiler meets a mapping without any capability key, apply() ends by
\* raising UnknownTransform and no other error.
C11_UnknownTransformRaised == MetUnrecognized => op = "UnknownTransform"

AbortedOnDescriptor == op \in {"UnknownTransform", "TypeError"}

\* the children as they were found, but for the case of the letters of a style
AsFound == [i \in DOMAIN found |-> lower_entry(found[i])]

\* C12: when apply() aborts on a malformed descriptor, the document is as it was before
\* the call (nothing extracted, nothing rendered; the case of the letters of a style
\* is not looked at) and the specification has lost no key.
C12_NothingAppliedOnAbort ==
    AbortedOnDescriptor =>
        /\ sibs = AsFound
        /\ detached = <<>>
        /\ rendered = <<>>
        /\ remainder = specification

ArticlesFound == {j \in DOMAIN found : is_art(lower_entry(found[j]))}
TitleAt(i) == join(TrimRight(TrimLeft(node_text(found[i].node))))
\* the elements of the article at i: from its title to the one before the next title
ExtentOf(i) == {j \in i..Len(found) : \A k \in ArticlesFound : k > i => j < k}
Kept(j) == \E k \in DOMAIN sibs : sibs[k] = AsFound[j]

\* C13: an article whose trimmed title is not a key of the specification is left as it
\* was: its title element with its attributes and every node of its body (the case of
\* the letters of a style is not looked at).
C13_UnmatchedArticleUntouched ==
    Applied =>
        \A i \in ArticlesFound :
            TitleAt(i) \notin DOMAIN specification => \A j \in ExtentOf(i) : Kept(j)

(***************************************************************************)
(* Claims about the compiler of content descriptors.                       *)
(***************************************************************************)
Compiled == op = "compile"
Keys == DOMAIN descriptor
Made == fragment.kids[1]
\* the key that wins in a set of keys listed in order
Wins(key, earlier) == key \in Keys /\ Keys \cap earlier = {}
IsLiteral == Keys \cap {"str", "num"} # {}
IsHyperlink == ~IsLiteral /\ Keys \cap {"link", "file", "email"} # {}
IsImage == ~IsLiteral /\ ~IsHyperlink /\ "image" \in Keys
IsFormat == ~IsLiteral /\ ~IsHyperlink /\ ~IsImage /\ Keys \cap {"bold", "italics", "underline"} # {}
IsNavigation ==
    ~IsLiteral /\ ~IsHyperlink /\ ~IsImage /\ ~IsFormat /\ Keys \cap {"anchor", "jump"} # {}
IsList ==
    /\ ~IsLiteral /\ ~IsHyperlink /\ ~IsImage /\ ~IsFormat /\ ~IsNavigation
    /\ Keys \cap {"numbers", "bullets"} # {}
OneElement(name) ==
    fragment.ended = "returned" /\ Len(fragment.kids) = 1 /\ is_tag(Made) /\ Made.name = name

DispatchedInOrder ==
    Compiled =>
        /\ "str" \in Keys => fragment = [ended |-> "returned", kids |-> <<[text |-> <<descriptor.str>>]>>]
        /\ "num" \in Keys /\ descriptor.num = 13 =>
               fragment = [ended |-> "returned", kids |-> <<[text |-> <<"13">>]>>]
        /\ IsHyperlink =>
               /\ OneElement("a")
               /\ Wins("link", {}) => Made.attrs.href = <<descriptor.link>>
               /\ Wins("file", {"link"}) =>
                      Made.attrs.href = <<BASE_URL, "docs/a%20b.pdf">> /\ descriptor.file = "docs/a b.pdf"
               /\ Wins("email", {"link", "file"}) => Made.attrs.href = <<"mailto:", descriptor.email>>
        /\ IsImage =>
               /\ OneElement("table")
               /\ \E row \in DOMAIN Made.kids[1].kids :
                      Made.kids[1].kids[row].kids[1].kids[1].name = "img"
        /\ IsFormat =>
               /\ Wins("bold", {}) => OneElement("strong")
               /\ Wins("italics", {"bold"}) => OneElement("em")
               /\ Wins("underline", {"bold", "italics"}) => OneElement("u")
        /\ IsNavigation =>
               /\ OneElement("a")
               /\ Wins("anchor", {}) =>
                      DOMAIN Made.attrs = {"name"} /\ Made.attrs.name = <<descriptor.anchor>>
               /\ Wins("jump", {"anchor"}) =>
                      DOMAIN Made.attrs = {"href"} /\ Made.attrs.href = <<"#", descriptor.jump>>
        /\ IsList =>
               /\ Wins("numbers", {}) => OneElement("ol")
               /\ Wins("bullets", {"numbers"}) => OneElement("ul")

Saved == op = "save"

\* nodes as the serialisation leaves them: no empty text, no two texts side by side
RECURSIVE Merged(_)
Merged(nodes) ==
    \A i \in DOMAIN nodes :
        IF is_tag(nodes[i]) THEN Merged(nodes[i].kids)
        ELSE /\ nodes[i].text # <<>>
             /\ i + 1 \in DOMAIN nodes => is_tag(nodes[i + 1])

\* the normalized form: the legacy doctype with curly quotes and in the capitals of the
\* source wherever it stands, and the text of the tree merged
Normalized(markup) ==
    /\ \A i \in DOMAIN markup.prolog :
           IF "doctype" \in DOMAIN markup.prolog[i]
           THEN markup.prolog[i].doctype \in {CURLY, HTML5}
           ELSE markup.prolog[i].comment \in {CURLY, HTML5}
    /\ Merged(markup.head)
    /\ Merged(markup.body)

HasLegacy(markup) ==
    \E i \in DOMAIN markup.prolog :
        /\ "doctype" \in DOMAIN markup.prolog[i]
        /\ markup.prolog[i].doctype \in {CURLY, CURLY_CASED, STRAIGHT, STRAIGHT_CASED}

\* C15: a Document made of normalized markup and written back with neither review() nor
\* repair() called gives that markup again, and markup that was written by a Document,
\* whichever quoting of the legacy doctype it started with, is written back unchanged
C15_RoundTrip ==
    /\ Saved /\ Normalized(written) => code = written
    /\ Saved /\ nsave >= 2 => code = written

\* normalized markup with the legacy doctype and a tag in the body went through the load,
\* where the doctype got straight quotes, and was written back
C15_Witness ==
    /\ Saved
    /\ nsave = 1
    /\ Normalized(written)
    /\ HasLegacy(written)
    /\ soup.prolog[1].doctype = STRAIGHT_CASED
    /\ \E i \in DOMAIN written.body : is_tag(written.body[i])

\* markup with the straight-quoted doctype and text in pieces was written twice
C15_WitnessTwice ==
    /\ Saved
    /\ nsave = 2
    /\ HasLegacy(written)
    /\ code.prolog # <<>>
    /\ code.prolog[1] = [doctype |-> CURLY]

(***************************************************************************)
(* The cache and the lookup commands (SpecCache).                          *)
(***************************************************************************)
\* the age in days of the row of a key at the start of a step, the key being in the table
AgeOf(rows, key) == today - rows[key].last_lookup

\* the info holder that get_* makes of the row of a key
InfoOf(rows, key) ==
    IF "status" \in DOMAIN rows[key] THEN webpage_info(key, rows[key])
    ELSE email_info(key, rows[key])

\* what one get_* call, with nolookup as given, did in this step: it asked online just
\* when the key was missing or MAX_AGE days old, only for that key, and a younger row was
\* returned with both tables left alone
GotByAge(name, rows) ==
    (op' = name /\ ~args'.nolookup) =>
        /\ requested' # <<>> <=> (args'.key \notin DOMAIN rows \/ AgeOf(rows, args'.key) >= 14)
        /\ \A i \in DOMAIN requested' : requested'[i].key = args'.key
        /\ (args'.key \in DOMAIN rows /\ AgeOf(rows, args'.key) < 14) =>
               /\ outcome' = [ended |-> "returned", info |-> InfoOf(rows, args'.key)]
               /\ UNCHANGED <<webpage_rows, email_rows>>

\* C16: get_webpage(key) and get_email(key) with nolookup false look the key up online if
\* and only if it is not in the cache or its last_lookup is at least MAX_AGE (14) days
\* old; a younger entry is returned with no online request and no change to the cache
C16_LookupIffMissingOrOld ==
    [][/\ GotByAge("Cache.get_webpage", webpage_rows)
       /\ GotByAge("Cache.get_email", email_rows)]_vars

\* get_webpage met a row that was exactly MAX_AGE days old and looked the url up again
C16_Witness ==
    /\ op = "Cache.get_webpage"
    /\ ~args.nolookup
    /\ outcome.ended = "returned"
    /\ today - outcome.info.last_lookup = 14
    /\ Len(requested) = 1
    /\ webpage_rows[args.key].last_lookup = today

\* get_email met a row that was thirteen days old and asked nothing
C16_WitnessYoung ==
    /\ op = "Cache.get_email"
    /\ ~args.nolookup
    /\ outcome.ended = "returned"
    /\ today - outcome.info.last_lookup = 13
    /\ requested = <<>>

\* what one get_* call with nolookup true did in this step
GotOffline(name, rows) ==
    (op' = name /\ args'.nolookup) =>
        /\ requested' = <<>>
        /\ UNCHANGED <<webpage_rows, email_rows>>
        /\ outcome' = IF args'.key \in DOMAIN rows
                      THEN [ended |-> "returned", info |-> InfoOf(rows, args'.key)]
                      ELSE [ended |-> "CacheMissException"]

\* what one lookup command with --cached did in this step
ShownOffline(name, rows) ==
    (op' = name /\ args'.cached /\ ~args'.forced) =>
        /\ requested' = <<>>
        /\ UNCHANGED <<webpage_rows, email_rows>>
        /\ outcome' = IF args'.key \in DOMAIN rows
                      THEN [ended |-> "printed", shown |-> <<InfoOf(rows, args'.key)>>]
                      ELSE [ended |-> "exit", shown |-> <<args'.key, " is not in the cache.">>]

\* C17: get_webpage and get_email with nolookup=True never ask online and never change
\* the cache: a key that is absent raises CacheMissException, a key that is present, young
\* or old, gives the cached entry; the command 'lookup --cached' ends a miss with an exit
\* message, not with the exception
C17_NoLookupIsOffline ==
    [][/\ GotOffline("Cache.get_webpage", webpage_rows)
       /\ GotOffline("Cache.get_email", email_rows)
       /\ ShownOffline("lookup webpage", webpage_rows)
       /\ ShownOffline("lookup email", email_rows)]_vars

\* get_email with nolookup=True gave a row older than MAX_AGE as it was
C17_Witness ==
    /\ op = "Cache.get_email"
    /\ args.nolookup
    /\ outcome.ended = "returned"
    /\ today - outcome.info.last_lookup > 14
    /\ email_rows[args.key].last_lookup = outcome.info.last_lookup

\* get_webpage with nolookup=True missed
C17_WitnessMiss ==
    /\ op = "Cache.get_webpage"
    /\ args.nolookup
    /\ outcome.ended = "CacheMissException"

\* 'lookup email --cached' missed
C17_WitnessExit ==
    /\ op = "lookup email"
    /\ args.cached
    /\ outcome = [ended |-> "exit", shown |-> <<args.key, " is not in the cache.">>]

\* a request of the last call met a connection error
MetConnectionError ==
    \E i \in DOMAIN requested : requested[i].met = [fault |-> "ConnectionError"]

\* C18: when the fetch of a url fails with a connection error the lookup does not raise:
\* status 410 is recorded for the url, get_webpage returns status 410, and review() marks
\* the link *BROKEN 410*
C18_ConnectionErrorIsGone ==
    (op \in {"Cache.lookup_webpage", "Cache.get_webpage", "review link"} /\ MetConnectionError) =>
        /\ outcome.ended = "returned"
        /\ webpage_rows[args.key] = [status |-> 410, last_lookup |-> today]
        /\ op = "Cache.get_webpage" => outcome.info.status = 410
        /\ op = "review link" =>
               /\ outcome.tags = <<[LinkTo(args.key) EXCEPT !.contents = <<broken_marker(410)>> \o @]>>
               /\ outcome.result.broken = 1

\* a request of the last call found the lookup unavailable: the connection failed, or
\* the verification service answered what cannot be used
Unavailable ==
    \E i \in DOMAIN requested :
        /\ "fault" \in DOMAIN requested[i].met
        /\ \/ requested[i].met.fault = "ConnectionError"
           \/ op \in {"Cache.get_email", "review email"}

\* C19: a lookup that is unavailable is given to the caller as a value and never as a
\* fault, for webpages and for addresses: get_webpage and get_email return an info, and
\* review() of the link returns its result
C19_UnavailableIsAValue ==
    (op \in {"Cache.get_webpage", "Cache.get_email", "review link", "review email"} /\ Unavailable) =>
        outcome.ended = "returned"

\* the calls that a lookup command is to make: lookup_* when forced, then get_* with
\* nolookup as --cached says
Driven(lookup, get) ==
    (IF args.forced THEN <<[name |-> lookup, key |-> args.key]>> ELSE <<>>)
    \o <<[name |-> get, key |-> args.key, nolookup |-> args.cached]>>

\* the last command made those calls, in that order; a lookup_* that raised ended the
\* command with its fault before the get_*
DroveCache(lookup, get) ==
    IF args.forced /\ args.cached
    THEN called = <<>> /\ requested = <<>> /\ outcome.ended = "usage"
    ELSE \/ called = Driven(lookup, get)
         \/ /\ args.forced
            /\ called = <<Driven(lookup, get)[1]>>
            /\ "fault" \in DOMAIN requested[1].met
            /\ outcome.ended = requested[1].met.fault

C20_WitnessRefused ==
    /\ op = "lookup webpage"
    /\ args.forced
    /\ args.cached
    /\ outcome.ended = "usage"

\* the table that a get_* call reads
RowsOf(name) == IF name = "Cache.get_webpage" THEN webpage_rows ELSE email_rows

\* C30: whenever get_webpage(url) or get_email(address) returns, the info returned is
\* the entry that the cache holds for the key at that moment; after an old entry was
\* looked up again it is the new one
C30_ReturnsWhatIsStored ==
    (op \in {"Cache.get_webpage", "Cache.get_email"} /\ outcome.ended = "returned") =>
        /\ args.key \in DOMAIN RowsOf(op)
        /\ outcome.info = InfoOf(RowsOf(op), args.key)

(***************************************************************************)
(* The entries marked by hand (SpecMark).                                  *)
(***************************************************************************)
\* this step is get_*(key, nolookup=True) for the key that the last call, a set or a
\* lookup that returned, wrote
GotAfter(write, get) ==
    /\ op = write
    /\ outcome.ended = "returned"
    /\ op' = get
    /\ args'.nolookup
    /\ args'.key = args.key

\* the row that the last call wrote, as its arguments and its request tell
Written ==
    IF op = "Cache.set_webpage" THEN [status |-> args.status]
    ELSE IF op = "Cache.set_email"
    THEN [is_valid |-> args.is_valid,
          reason |-> IF args.is_valid THEN "user_verified" ELSE "user_refuted"]
    ELSE IF op = "Cache.lookup_webpage"
    THEN [status |-> IF "status" \in DOMAIN requested[1].met THEN requested[1].met.status ELSE 410]
    ELSE [is_valid |-> requested[1].met.safe_to_send # "false", reason |-> requested[1].met.reason]

\* the info without its key and its time
Told(info) == [f \in DOMAIN info \ {"url", "address", "last_lookup"} |-> info[f]]

\* C21: after set_email(address, v) the next get_email(address, nolookup=True) gives the
\* address with is_valid v and reason user_verified or user_refuted, after
\* set_webpage(url, s) the next get_webpage(url, nolookup=True) gives status s, and a
\* later set or lookup of the key replaces the entry: the last write is what is got, and
\* a write changes the entry of its key only
C21_LastWriteWins ==
    [][/\ \A w \in {"Cache.set_webpage", "Cache.lookup_webpage"} :
              GotAfter(w, "Cache.get_webpage") =>
                  /\ outcome'.ended = "returned"
                  /\ outcome'.info.url = args.key
                  /\ outcome'.info.last_lookup = today
                  /\ Told(outcome'.info) = Written
       /\ \A w \in {"Cache.set_email", "Cache.lookup_email"} :
              GotAfter(w, "Cache.get_email") =>
                  /\ outcome'.ended = "returned"
                  /\ outcome'.info.address = args.key
                  /\ outcome'.info.last_lookup = today
                  /\ Told(outcome'.info) = Written
       /\ op' \in {"Cache.set_webpage", "Cache.set_email"} =>
              /\ DOMAIN webpage_rows' = DOMAIN webpage_rows \cup ({args'.key} \cap Pages)
              /\ DOMAIN email_rows' = DOMAIN email_rows \cup ({args'.key} \cap Mailboxes)
              /\ \A k \in DOMAIN webpage_rows \ {args'.key} : webpage_rows'[k] = webpage_rows[k]
              /\ \A k \in DOMAIN email_rows \ {args'.key} : email_rows'[k] = email_rows[k]]_vars

\* on day 14 an address was marked invalid by hand and then got with nolookup=True
C21_Witness ==
    /\ op = "Cache.get_email"
    /\ args.nolookup
    /\ today = 14
    /\ outcome = [ended |-> "returned",
                  info |-> [address |-> args.key, is_valid |-> FALSE, reason |-> "user_refuted",
                            last_lookup |-> 14]]

\* a url was marked with the teapot status and got with nolookup=True
C21_WitnessWebpage ==
    /\ op = "Cache.get_webpage"
    /\ args.nolookup
    /\ outcome.ended = "returned"
    /\ outcome.info.status = 418

(***************************************************************************)
(* The order of review() (Spec).                                           *)
(***************************************************************************)
\* the tag is not removed by the pass over the external links
LeftByExternal(tag) == ~(is_external(tag) /\ is_useless(tag))

\* C22: in one review() the external links come first, then the internal links, then the
\* mailto links: every lookup of a webpage is issued before every lookup of an address,
\* the anchor names are those of the document as the external pass left it, collected
\* before any internal link is processed, and within a category the lookups follow the
\* document order of their links
C22_CategoriesInOrder ==
    Reviewed =>
        /\ \A i, j \in DOMAIN log :
               i < j => /\ ~(log[i].kind = "email" /\ log[j].kind = "webpage")
                        /\ log[i].kind = log[j].kind => log[i].id < log[j].id
        /\ collected = anchor_names(SelectSeq(before, LeftByExternal))

\* a review looked up a webpage and then an address, the mailto link standing before
\* the external link in the document
C22_Witness ==
    /\ Reviewed
    /\ Len(log) = 2
    /\ log[1].kind = "webpage" /\ log[2].kind = "email"
    /\ log[2].id < log[1].id

\* a review looked up the webpages of two links
C22_WitnessTwo ==
    /\ Reviewed
    /\ Len(log) = 2
    /\ log[1].kind = "webpage" /\ log[2].kind = "webpage"
    /\ log[1].key # log[2].key

\* an anchor that the external pass removed was not collected, and an anchor that the
\* internal pass removed was
C22_WitnessAnchors ==
    /\ Reviewed
    /\ \E i \in DOMAIN before : is_anchor(before[i]) /\ ~LeftByExternal(before[i])
    /\ \E i \in DOMAIN before :
           /\ is_anchor(before[i])
           /\ LeftByExternal(before[i])
           /\ before[i].id \notin Ids(doc)

(***************************************************************************)
(* Which external links review() looks up (Spec).                          *)
(***************************************************************************)
\* the href is a template variable not yet substituted: ## at both ends
FullyWrapped(href) == Len(href) >= 3 /\ Head(href) = "##" /\ href[Len(href)] = "##"

\* the href without the ##...## token it begins with
AfterToken(href) ==
    IF Len(href) >= 3 /\ href[1] = "##" /\ href[3] = "##" THEN SubSeq(href, 4, Len(href))
    ELSE href

\* the external links of the document that went into the last review
Externals == {i \in DOMAIN before : is_external(before[i])}

\* C23: review() looks the webpage of an external link up if and only if the link is not
\* removed and its href, retargetted and decoded, is not fully wrapped in ##...##; the
\* url looked up is that href without its leading ##...## token; a removed link and a
\* link that is a template variable cause no lookup and no broken or unchecked tally
C23_LookupIffSurvivesUnwrapped ==
    Reviewed =>
        /\ \A i \in Externals :
               LET id == before[i].id
                   kept == id \in Ids(doc)
               IN  IF kept /\ ~FullyWrapped(Find(doc, id).attrs.href)
                   THEN /\ Cardinality(LookupsOf(id, "webpage")) = 1
                        /\ \A k \in LookupsOf(id, "webpage") :
                               log[k].key = AfterToken(Find(doc, id).attrs.href)
                   ELSE /\ LookupsOf(id, "webpage") = {}
                        /\ kept => Find(doc, id).contents = before[i].contents
        /\ summary.links.broken + summary.links.unchecked
               <= Cardinality({k \in DOMAIN log : log[k].kind = "webpage"})

\* a review met a link to ##TrackClick##https://a.org, which it looked up as
\* https://a.org, and a template variable, which it left alone
C23_Witness ==
    /\ Reviewed
    /\ \E i \in Externals :
           /\ before[i].attrs.href = PLACEHOLDER \o URL_A
           /\ \E k \in LookupsOf(before[i].id, "webpage") : log[k].key = URL_A
    /\ \E i \in Externals :
           /\ before[i].attrs.href = TEMPLATE_VAR
           /\ before[i].id \in Ids(doc)
           /\ LookupsOf(before[i].id, "webpage") = {}

(***************************************************************************)
(* Repeated reviews (Spec): 'before' and 'log' are of the call before the  *)
(* step, the primed ones of the call the step makes.                       *)
(***************************************************************************)
WebMark(status) ==
    IF status = 403 THEN {"*UNCHECKED*"}
    ELSE IF status >= 400 /\ status < 600 THEN {"*BROKEN " \o ToString(status) \o "*"}
    ELSE {}
MailMark(info) ==
    IF info.is_valid THEN {}
    ELSE IF info.reason = "accepted_email" THEN {"*UNCHECKED*"}
    ELSE {"*INVALID " \o info.reason \o "*"}

\* the marker that the outcome of a call asks for on a link (none, or one): lg holds the
\* lookups of the call, names the anchor names it collected
OutcomeOf(tag, lg, names) ==
    LET of(kind) == {k \in DOMAIN lg : lg[k].id = tag.id /\ lg[k].kind = kind}
    IN  UNION {WebMark(cache.web[lg[k].key]) : k \in of("webpage")}
        \cup UNION {MailMark(cache.mail[lg[k].key]) : k \in of("email")}
        \cup (IF is_internal(tag) /\ \A n \in DOMAIN names : names[n] # NameOf(tag)
              THEN {MissingText(tag)} ELSE {})

\* C24: every review() call puts the marker of a link's outcome before what the link
\* held, so that a link which had the same outcome in the call before begins with two
\* markers followed by what it held before that call (and so on), and every call tallies
\* each marked link once
C24_MarkersAccumulate ==
    [][op' = "review" =>
          /\ \A i \in DOMAIN doc' :
                 \A m \in OutcomeOf(Find(doc, doc'[i].id), log', collected') :
                     /\ doc'[i].contents = <<m>> \o Find(doc, doc'[i].id).contents
                     /\ (nrev' >= 2 /\ m \in OutcomeOf(Find(before, doc'[i].id), log, collected))
                            => doc'[i].contents = <<m, m>> \o Find(before, doc'[i].id).contents
          /\ summary'.links.broken + summary'.links.unchecked + summary'.anchors.marked
                 + summary'.emails.invalid + summary'.emails.unchecked
               = Cardinality({i \in DOMAIN doc' :
                                 OutcomeOf(Find(doc, doc'[i].id), log', collected') # {}})]_vars

\* after two reviews a link to a page that answers 410 begins with two *BROKEN 410*
C24_Witness ==
    /\ Reviewed /\ nrev = 2
    /\ \E i \in DOMAIN doc :
           /\ Len(doc[i].contents) >= 3
           /\ doc[i].contents[1] = "*BROKEN 410*" /\ doc[i].contents[2] = "*BROKEN 410*"
           /\ Find(before, doc[i].id).contents = Tail(doc[i].contents)
    /\ summary.links.broken >= 1

\* after two reviews a link to an anchor that is not there begins with two *MISSING*
C24_WitnessMissing ==
    /\ Reviewed /\ nrev = 2
    /\ \E i \in DOMAIN doc :
           /\ is_internal(doc[i])
           /\ Len(doc[i].contents) >= 3
           /\ doc[i].contents[1] = MissingText(doc[i]) /\ doc[i].contents[2] = MissingText(doc[i])
    /\ summary.anchors.marked >= 1

\* after two reviews a link to a refused address begins with two *INVALID ...*
C24_WitnessInvalid ==
    /\ Reviewed /\ nrev = 2
    /\ \E i \in DOMAIN doc : \E k \in LookupsOf(doc[i].id, "email") :
           /\ ~cache.mail[log[k].key].is_valid
           /\ cache.mail[log[k].key].reason # "accepted_email"
           /\ Len(doc[i].contents) >= 3
           /\ doc[i].contents[1] = "*INVALID " \o cache.mail[log[k].key].reason \o "*"
           /\ doc[i].contents[2] = doc[i].contents[1]
    /\ summary.emails.invalid >= 1

(***************************************************************************)
(* The tag classifiers apply() uses (SpecApply).                           *)
(***************************************************************************)
\* no key of the specification is the title of an article or 'top'
MatchesNothing == DOMAIN specification \cap (ArticleTitles \cup {"top"}) = {}

\* the body-boundary and the return-marker classifiers answer yes or no on every
\* element of the document apply() was run on
C25_ClassifiersAnswer ==
    op # "load" =>
        \A i \in DOMAIN found :
            is_tag(found[i].node) =>
                /\ is_before_body(found, i) \in {"yes", "no"}
                /\ is_before_return(found, i) \in {"yes", "no"}

\* apply() with a specification that matches nothing returns and leaves the document
\* as it was, attributes included
C25_UnmatchedUntouched ==
    (op # "load" /\ MatchesNothing) => op = "apply" /\ sibs = found /\ detached = <<>>

\* C25 (as stated): the classifiers are pure: evaluated on any element they answer yes
\* or no without failing, whatever sibling or attribute the element lacks, and they
\* change nothing, so that apply() with a specification that matches no article leaves
\* the document unchanged.
C25_ClassifiersArePure == C25_ClassifiersAnswer /\ C25_UnmatchedUntouched

(***************************************************************************)
(* Which spans are article titles (SpecApply).                             *)
(***************************************************************************)
\* the style has the 16px font size and the #595959 colour
HasSignature(style) == in_style(style, WithFontSize16) /\ in_style(style, WithColor)

\* 1, and 1 more for each of background-color and font-family that the style has
ExactCount(style) ==
    1 + (IF in_style(style, WithBackgroundColor) THEN 1 ELSE 0)
      + (IF in_style(style, WithFontFamily) THEN 1 ELSE 0)

\* the spans of the document apply() was run on, their styles in lower case
SpansFound ==
    {i \in DOMAIN found : is_tag(found[i].node) /\ found[i].node.name = "span"
                          /\ has_attr(found[i].node, "style")}
StyleAt(i) == lower_entry(found[i]).node.attrs.style

\* C26 (as stated): a span is an article title only if its style has the signature and
\* as many declarations (counted as the code counts them, by their semicolons) as the
\* exact count; a span with the signature and more declarations than that is not an
\* article title, and apply() renders nothing for it.
C26_ExactDeclarationCount ==
    op # "load" =>
        \A i \in SpansFound :
            /\ is_article_title(lower_entry(found[i]).node)
                   => HasSignature(StyleAt(i)) /\ semicolons(StyleAt(i)) = ExactCount(StyleAt(i))
            /\ (HasSignature(StyleAt(i)) /\ semicolons(StyleAt(i)) > ExactCount(StyleAt(i)))
                   => /\ ~is_article_title(lower_entry(found[i]).node)
                      /\ \A r \in DOMAIN rendered : rendered[r].key # TitleAt(i)

(***************************************************************************)
(* Which links review() takes for external links (Spec).                   *)
(***************************************************************************)
\* an http(s) url, alone or after a ##...## token, or the empty href
UrlAfterAnyToken(href) == href = <<>> \/ is_http_url(AfterToken(href))

\* the repair steps were applied to the link: it was removed as useless, or it is
\* there with a target that is _blank and its url, without the token, was looked up
Repaired(tag) ==
    IF tag.attrs.href \in {<<>>, PLACEHOLDER} \/ BlankText(tag)
    THEN tag.id \notin Ids(doc)
    ELSE /\ tag.id \in Ids(doc)
         /\ has_attr(Find(doc, tag.id), "target")
         /\ Find(doc, tag.id).attrs.target \in BlankTargets
         /\ \E k \in LookupsOf(tag.id, "webpage") :
                log[k].key = AfterToken(Find(doc, tag.id).attrs.href)

\* C27 (as stated): review() applies the external-link repair steps to every link whose
\* href is an http(s) url, alone or preceded by ##TrackClick## or by any other ##...##
\* token, and to a link whose href is empty: a link to ##X##https://a.org with a text
\* ends with target _blank and with https://a.org looked up.
C27_AnyTokenIsExternal ==
    Reviewed =>
        \A i \in DOMAIN before :
            (has_attr(before[i], "href") /\ UrlAfterAnyToken(before[i].attrs.href))
                => Repaired(before[i])

(***************************************************************************)
(* What apply() does to the body of a matched article (SpecApply).         *)
(***************************************************************************)
BodyOnly(group) == "body" \in DOMAIN group /\ DOMAIN group \cap {"left", "right"} = {}
FirstOfItsTitle(i) == \A k \in ArticlesFound : k < i => TitleAt(k) # TitleAt(i)

\* the markers of the article at i: the first later sibling each classifier accepts
BoundaryOf(i) == find_next_sibling(AsFound, i, "_is_before_body")
ReturnOf(i) == find_next_sibling(AsFound, i, "_is_before_return")

\* the article at i has its two markers, in that order, before the next title
HasOwnMarkers(i) ==
    /\ BoundaryOf(i).ended = "returned" /\ BoundaryOf(i).at \in ExtentOf(i)
    /\ ReturnOf(i).ended = "returned" /\ ReturnOf(i).at \in ExtentOf(i)
    /\ BoundaryOf(i).at < ReturnOf(i).at

\* the article at i is matched by a group with a body and no columns
BodyAsked(i) ==
    /\ TitleAt(i) \in DOMAIN specification
    /\ BodyOnly(specification[TitleAt(i)])
    /\ FirstOfItsTitle(i)
    /\ HasOwnMarkers(i)

\* the k-th of the n paragraph blocks made of a body list
ParagraphOf(list, k) ==
    Elem("div", [style |-> PARAGRAPH_STYLE],
         set_content(list[k]).kids \o (IF k < Len(list) THEN <<br_tag>> ELSE <<>>))

\* between the two markers of the article at i stand the n paragraphs of the body
\* list, in its order, and nothing else; the markers are kept
BodyReplaced(i) ==
    LET list == specification[TitleAt(i)].body
        b == pos_of(sibs, BoundaryOf(i).at)
        r == pos_of(sibs, ReturnOf(i).at)
    IN  /\ b # 0 /\ r # 0
        /\ sibs[b] = AsFound[BoundaryOf(i).at] /\ sibs[r] = AsFound[ReturnOf(i).at]
        /\ r = b + Len(list) + 1
        /\ \A k \in DOMAIN list : sibs[b + k].node = ParagraphOf(list, k)

\* C28 (as stated): for a matched article with a body list of n descriptors, apply()
\* removes every sibling strictly between the body-boundary marker and the return
\* marker, keeps both markers and the nodes of the article outside them, puts the n
\* paragraph blocks of the list after the boundary marker, in order, a line break
\* closing each but the last, and removes 'body' from the group.
C28_BodyReplacedBetweenMarkers ==
    Applied =>
        \A i \in ArticlesFound :
            BodyAsked(i) =>
                /\ BodyReplaced(i)
                /\ \A j \in ExtentOf(i) :
                       IF j > BoundaryOf(i).at /\ j < ReturnOf(i).at THEN pos_of(sibs, j) = 0
                       ELSE j # i => Kept(j)
                /\ TitleAt(i) \in DOMAIN remainder => "body" \notin DOMAIN remainder[TitleAt(i)]

(***************************************************************************)
(* Groups with columns (SpecApply).                                        *)
(***************************************************************************)
\* apply() was run with a specification whose only key is the title of the article at
\* i, an article with its own markers and the only one of that title
OnlyAsked(i) ==
    /\ op # "load"
    /\ DOMAIN specification = {TitleAt(i)}
    /\ \A k \in ArticlesFound : k # i => TitleAt(k) # TitleAt(i)
    /\ HasOwnMarkers(i)

\* the node that follows the boundary marker of the article at i
AfterBoundary(i) == sibs[pos_of(sibs, BoundaryOf(i).at) + 1]

\* C29 (as stated): left and right override body: with both in the group apply() puts
\* a table after the boundary marker, removes 'left' and 'right' from the group and
\* leaves a 'body' in the remainder; with 'body' and neither of them the paragraphs of
\* the body are put there; with only one of 'left' and 'right' apply() still returns
\* and the body of the article is not left empty.
C29_ColumnsOverrideBody ==
    \A i \in ArticlesFound :
        OnlyAsked(i) =>
            LET title == TitleAt(i)
                group == specification[title]
            IN  /\ ({"left", "right"} \subseteq DOMAIN group /\ Applied) =>
                       /\ AfterBoundary(i).node.name = "table"
                       /\ title \in DOMAIN remainder
                              => DOMAIN remainder[title] \cap {"left", "right"} = {}
                       /\ "body" \in DOMAIN group
                              => /\ title \in DOMAIN remainder
                                 /\ "body" \in DOMAIN remainder[title]
                                 /\ remainder[title].body = group.body
                /\ (BodyOnly(group) /\ Applied) =>
                       AfterBoundary(i).node = ParagraphOf(group.body, 1)
                /\ Cardinality(DOMAIN group \cap {"left", "right"}) = 1 =>
                       /\ Applied
                       /\ AfterBoundary(i).id # ReturnOf(i).at

=============================================================================
